---- MODULE Spec2Model ----
(***************************************************************************)
(* Verification model of the madmail protocol test toolkit                 *)
(* (tests/deltachat-test): the hand-rolled IMAP client of                  *)
(* scenarios/test_14_idle_notification.py, the chunk-based IMAP helpers of *)
(* test_13_multirecipient.py and test_12_cmping_functional.py, and the     *)
(* IDLE notification scenario test_idle_notification.                      *)
(*                                                                         *)
(* Text on the wire is a sequence of tokens.  A token is a tuple of        *)
(* strings: a word is <<"OK">>, a tag is <<"A","0","0","0","1">>, and the  *)
(* line terminator is the token CRLF.  Consecutive tokens of one line are  *)
(* separated by one space.                                                 *)
(***************************************************************************)
EXTENDS Integers, Sequences, FiniteSets, TLC

\* ------------------------------------------------------------------ bounds
\* Tokens in the stream a peer sends to the line reader.
MaxStream == 4
\* The longest timeout idle_wait is called with, in ticks.
MaxWait == 2
\* Clock ticks in a second.
TicksPerSecond == 2
\* The most messages SELECT reports for a mailbox.
MaxMsgs == 2
\* Receivers of the ping group, pings sent, and events that appear in the
\* receivers' event streams.
NumPingReceivers == 2
PingCount == 1
MaxEvents == 3
\* Continuation lines in one SMTP reply.
MaxCont == 1
\* Empty reads the model follows in one reply read.
MaxEmpty == 2
\* Commands one client may write on its connection.
MaxCmds == 3
\* Times the server or the network misbehaves in one run of the scenario.
MaxFaults == 1
\* Lines the server may push while a connection idles.
MaxPush == 1

\* ------------------------------------------------------------------ tokens
W(s) == <<s>>
CRLF == <<"CRLF">>
NoTag == <<>>
OK == W("OK")
NO == W("NO")
BAD == W("BAD")
STAR == W("*")
PLUS == W("+")
EXISTS == W("EXISTS")
DONE == W("DONE")

DigitChars == <<"0", "1", "2", "3", "4", "5", "6", "7", "8", "9">>

RECURSIVE Digits(_)
\* The decimal digits of n, most significant first (str(n)).
Digits(n) == IF n < 10 THEN <<DigitChars[n + 1]>>
             ELSE Digits(n \div 10) \o <<DigitChars[(n % 10) + 1]>>

RECURSIVE ZeroPad(_, _)
\* Python's {:0<w>d}: zeros on the left up to width w, never a truncation.
ZeroPad(ds, w) == IF Len(ds) >= w THEN ds ELSE ZeroPad(<<"0">> \o ds, w)

\* IMAPClient._send_command: tag = f"A{self.tag_counter:04d}".
TagWidth == 4
\* The longest slice idle_wait reads for, in seconds: min(remaining, 1.0).
SliceSeconds == 1
FormatTag(n) == <<"A">> \o ZeroPad(Digits(n), TagWidth)

\* The number a digit token spells (int(parts[1])); -1 when it is no number.
DigitValue(c) == IF \E d \in 1..10 : DigitChars[d] = c
                 THEN (CHOOSE d \in 1..10 : DigitChars[d] = c) - 1
                 ELSE -1
RECURSIVE ParseInt(_)
ParseInt(tok) ==
    IF Len(tok) = 0 THEN -1
    ELSE IF Len(tok) = 1 THEN DigitValue(tok[1])
    ELSE LET hi == ParseInt(SubSeq(tok, 1, Len(tok) - 1))
             lo == DigitValue(tok[Len(tok)])
         IN  IF hi < 0 \/ lo < 0 THEN -1 ELSE hi * 10 + lo
\* The number a tag spells after its letter.
TagNumber(tag) == ParseInt(Tail(tag))

\* ------------------------------------------------------------------ state
VARIABLES
    \* IMAPClient (test_14): the object's fields
    sock,          \* "none" | "open"          (self.sock)
    tag_counter,   \* self.tag_counter
    buffer,        \* self.buffer: tokens received and not yet returned
    \* the connection
    s2c,           \* tokens the server has sent and the client has not received
    c2s,           \* lines the client has written and the server has not read
    eof,           \* the server has closed its side
    wire,          \* every line the client has written, in order (its first token)
    \* the caller's position in a client call
    pc,            \* [op, tag, untagged]
    idle_tag,      \* the tag idle_start returned and idle_done has not used
    result,        \* what the last finished call gave its caller
    cstate,        \* the client's protocol state
    prev_state,    \* the state IDLE was entered from
    \* the server under test
    srv,           \* its session state
    srvIdleTag,    \* the tag of the IDLE it is serving
    srvBack,       \* the state it returns to on DONE
    srvExists,     \* messages in the mailbox
    pushes,        \* lines pushed while idling
    answered,      \* every tagged or continuation answer it has sent
    \* the chunk-based IMAP helpers (test_13 imap_cmd, test_12 imap_session)
    h_kind,        \* "off" | "cmd13" | "sess12": the helper that runs
    h_cmds,        \* the commands the session issues, in order
    h_tag,         \* tag: the commands written so far
    h_pc,          \* "banner" | "send" | "recv" | "ok" | "failed"
    h_resp,        \* response: the tokens the current call has received
    h_net,         \* tokens sent by the server and not yet received
    h_srvq,        \* commands written and not yet read by the server
    h_ret,         \* what the last finished call returned: [n, resp]
    h_reply,       \* per command, the tokens the server sent in reply
    \* test_idle_notification (test_14)
    t_pc,          \* the statement the function is at
    t_i,           \* the index of the loop it is in
    t_conn,        \* per recipient, its IMAPClient: "none" | "open" | "closed"
    t_ev,          \* per recipient, what was done on its connection, in order
    t_idle_clients, \* len(idle_clients) = len(idle_tags)
    t_tmp,         \* user-creation clients: opened and not closed
    t_smtp,        \* the SMTPClient: "none" | "open" | "closed"
    t_smtp_log,    \* the SMTP commands written, in order
    t_accepted,    \* the server has accepted the message (250 after DATA)
    t_now,         \* seconds since the message was accepted
    t_deadline,    \* the deadline of the idle_wait in progress
    t_pushed,      \* recipients the server has pushed EXISTS to, in push order
    t_seen,        \* per recipient, when its idle_wait saw EXISTS (-1: never)
    t_done,        \* per recipient, what its idle_done gave
    t_notifs,      \* notifications_received
    t_msgs,        \* messages_received
    t_has,         \* per recipient, SELECT reported a message
    t_fault,       \* how many times the server or the network has misbehaved
    t_ret,         \* what the function returned: "none" | "true" | "false"
    \* IMAPClient's line reader over one connection, with the clock
    r_stream,      \* the tokens the peer sends on the connection, in order
    r_arrived,     \* how many of them have reached the client's socket
    r_taken,       \* how many of them recv has returned
    r_closed,      \* the peer has closed the connection
    r_buf,         \* self.buffer
    r_lines,       \* every line _read_line has returned, in order
    r_pc,          \* "idle" | "read" | "loop" | "slice"
    r_now,         \* time.time() since idle_wait was entered, in ticks
    r_deadline,    \* deadline of the idle_wait in progress
    r_slice,       \* the socket timeout _read_line_timeout has set
    r_recv_end,    \* when the recv in progress times out
    r_notifs,      \* notifications of the idle_wait in progress
    r_ret,         \* what the last finished call gave: [kind, val]
    r_cut,         \* a slice has timed out with an unfinished line buffered
    \* the message builders (generate_fake_pgp_encrypted_message, test_14;
    \* create_fake_pgp_message, test_13)
    b_kind,        \* "off" | "gen14" | "create13": the builder that runs
    b_pc,          \* "header" | "armor" | "message" | "done"
    b_len,         \* body_len: the length of the packet body
    b_header,      \* header: the bytes of the packet header
    b_data,        \* pgp_data: the bytes that are armored
    b_armor,       \* pgp_armored: the armored text
    b_to,          \* the recipients the message is built for
    b_msg,         \* the message text
    \* one wait for a delivery (the collecting loop of test_15_deltachat_cmping,
    \* Pinger.receive of test_15_cmping, _wait_for_message of test_07)
    w_kind,        \* "off" | "collect" | "receive" | "poll": the wait that runs
    w_pc,          \* "test" | "blocked" | "returned" | "raised" | "interrupted"
    w_now,         \* time.time() - start, in ticks
    w_slice,       \* ticks spent in the blocking call under way
    w_idx,         \* collect: the receiver of the for loop
    w_pending,     \* deliveries still expected (num_pending)
    w_left,        \* events the event source will still produce
    w_ev,          \* per receiver: events produced and not yet taken
    w_q,           \* receive: entries in event_queue; poll: matching messages
    w_sender,      \* receive: "alive" | "dead" | "fired", the send thread
    \* one run of a scenario's entry point (main of test_14 and test_15,
    \* run_multirecipient_test and the __main__ block of test_13)
    e_kind,        \* "off" | "test14" | "test13" | "test15"
    e_pc,          \* "args" | "start" | "scenario" | "decide" | "except" |
                   \* "finally" | "main" | "exited"
    e_srv,         \* "none" | "running" | "exited" | "terminated" | "killed"
    e_res,         \* what the scenario ended with
    e_success,     \* the variable success
    e_exit,        \* the code of the sys.exit under way, -1 when none is
    e_code,        \* the exit code of the process, -1 while it runs
    \* the message data of one submission (SMTPClient.data of test_14 after
    \* the 354 reply; the two sends of test_13)
    d_kind,        \* "off" | "client14" | "cmd13"
    d_pc,          \* "message" | "crlf" | "dot" | "done"
    d_msg,         \* message: the characters passed to data
    d_sent,        \* the characters written after the 354 reply
    \* the counters of one Pinger (test_15_cmping): the send thread and the
    \* receive loop of the main thread
    k_snd,         \* "send" | "count" | "sleep" | "fired": the send thread
    k_seq,         \* seq of the send thread's for loop
    k_out,         \* the sequence numbers send_text has been called for
    k_sent,        \* self.sent
    k_q,           \* event_queue: <<receiver, seq>>, seq -1 for another event
    k_made,        \* events put into the queue so far
    k_main,        \* "loop" | "done" | "interrupted": the receive loop
    k_received,    \* self.received
    k_pending,     \* num_pending
    k_seen,        \* received_by_receiver, as pairs <<seq, receiver>>
    \* run_stress and its worker processes (stress.py)
    x_users,       \* the argument users
    x_workers,     \* the argument workers
    x_per,         \* per_worker
    x_main,        \* "assign" | "start" | "collect" | "join" | "report" | "done"
    x_wk,          \* per worker: "none" | "setup" | "run" | "finally" | "ended"
    x_res,         \* per worker: the result dict, "none" | "ok" | "errors"
    x_put,         \* per worker: the results it has put on the queue
    x_queue,       \* the multiprocessing.Queue: <<worker_id, result>>
    x_results,     \* results
    x_report,      \* report["workers_results"], <<>> before the report is built
    \* the port analysis of the federation test (test_07, Part C)
    f_pc,          \* "flush" | "block" | "deliver" | "restore" | "returned" | "raised"
    f_i,           \* the scenario of the for loop, 1..3
    f_rules,       \* the rules on the servers: <<remote, chain, port>>
    f_results,     \* results: delivered, per scenario
    f_lost,        \* an iptables -F came back with a non-zero return code
    \* one SMTP submission session
    m_kind,        \* "off" | "client14" | "cmd13": the code that runs it
    m_step,        \* the number of the step in progress
    m_pc,          \* "send" | "recv" | "done" | "failed"
    m_wire,        \* what the client has written, in order
    m_net,         \* tokens sent by the server and not yet received
    m_data,        \* data (SMTPClient) or response (smtp_recv_response)
    m_lines,       \* lines (SMTPClient._read_response)
    m_raw,         \* the tokens the read in progress has taken
    m_sent,        \* the tokens of the server's latest reply
    m_codes,       \* the codes the server has answered with, in order
    m_pending,     \* the server has a command it has not answered
    m_eof,         \* the server has closed the connection
    m_empty,       \* empty reads of the read in progress
    m_ret,         \* what the last finished reply read gave
    m_dataret,     \* what data() returned: "none" | "true" | "false"
    m_out,         \* how the operation of the last finished step ended
    m_sock,        \* the client's socket: "none" | "open"
    \* test_multirecipient (test_13), the mailbox verification
    v_pc,          \* "check" | "done"
    v_i,           \* the recipient the loop is at
    v_counts,      \* per recipient checked, the message count SELECT reported
    v_succ,        \* successful_recipients
    v_failed,      \* failed_recipients
    v_ret,         \* success: "none" | "true" | "false"
    \* perform_cmping and Pinger.receive (test_15)
    p_main,        \* where the main thread is
    p_idx,         \* the receiver the join loop is at
    p_started,     \* listener threads started
    p_thr,         \* per receiver, its listener: "none" | "wait" | "dead"
    p_ev,          \* per receiver, events in its stream that nobody has read
    p_q,           \* event_queue
    p_pending,     \* num_pending
    p_made,        \* events that have appeared in all
    p_reads        \* per receiver, who has read from its stream

connVars == <<sock, tag_counter, buffer, s2c, c2s, eof, wire, pc, idle_tag,
              result, cstate, prev_state>>
srvVars == <<srv, srvIdleTag, srvBack, srvExists, pushes, answered>>
helperVars == <<h_kind, h_cmds, h_tag, h_pc, h_resp, h_net, h_srvq,
                h_ret, h_reply>>
scenVars == <<t_pc, t_i, t_conn, t_ev, t_idle_clients, t_tmp, t_smtp,
              t_smtp_log, t_accepted, t_now, t_deadline, t_pushed, t_seen,
              t_done, t_notifs, t_msgs, t_has, t_fault, t_ret>>
readerVars == <<r_stream, r_arrived, r_taken, r_closed, r_buf, r_lines, r_pc,
                r_now, r_deadline, r_slice, r_recv_end, r_notifs, r_ret, r_cut>>
smtpVars == <<m_kind, m_step, m_pc, m_wire, m_net, m_data, m_lines, m_raw,
              m_sent, m_codes, m_pending, m_eof, m_empty, m_ret, m_dataret,
              m_out, m_sock>>
verifyVars == <<v_pc, v_i, v_counts, v_succ, v_failed, v_ret>>
pingVars == <<p_main, p_idx, p_started, p_thr, p_ev, p_q, p_pending, p_made,
              p_reads>>
buildVars == <<b_kind, b_pc, b_len, b_header, b_data, b_armor, b_to, b_msg>>
waitVars == <<w_kind, w_pc, w_now, w_slice, w_idx, w_pending, w_left, w_ev,
    w_q, w_sender>>
mainVars == <<e_kind, e_pc, e_srv, e_res, e_success, e_exit, e_code>>
dataVars == <<d_kind, d_pc, d_msg, d_sent>>
countVars == <<k_snd, k_seq, k_out, k_sent, k_q, k_made, k_main,
    k_received, k_pending, k_seen>>
stressVars == <<x_users, x_workers, x_per, x_main, x_wk, x_res, x_put,
    x_queue, x_results, x_report>>
portsVars == <<f_pc, f_i, f_rules, f_results, f_lost>>
vars == <<connVars, srvVars, helperVars, scenVars, readerVars, smtpVars,
          verifyVars, pingVars,
          buildVars,
          waitVars,
          mainVars,
          dataVars,
          countVars,
          stressVars,
          portsVars>>
\* What each specification leaves alone.
offConn == <<helperVars, scenVars, readerVars, smtpVars, verifyVars, pingVars,
    buildVars,
    waitVars,
    mainVars,
    dataVars,
    countVars,
    stressVars,
    portsVars>>
offHelper == <<connVars, srvVars, scenVars, readerVars, smtpVars, verifyVars,
               pingVars,
    buildVars,
    waitVars,
    mainVars,
    dataVars,
    countVars,
    stressVars,
    portsVars>>
offScen == <<connVars, srvVars, helperVars, readerVars, smtpVars, verifyVars,
             pingVars,
    buildVars,
    waitVars,
    mainVars,
    dataVars,
    countVars,
    stressVars,
    portsVars>>
offReader == <<connVars, srvVars, helperVars, scenVars, smtpVars, verifyVars,
               pingVars,
    buildVars,
    waitVars,
    mainVars,
    dataVars,
    countVars,
    stressVars,
    portsVars>>
offSmtp == <<connVars, srvVars, helperVars, scenVars, readerVars, verifyVars,
             pingVars,
    buildVars,
    waitVars,
    mainVars,
    dataVars,
    countVars,
    stressVars,
    portsVars>>
offVerify == <<connVars, srvVars, helperVars, scenVars, readerVars, smtpVars,
               pingVars,
    buildVars,
    waitVars,
    mainVars,
    dataVars,
    countVars,
    stressVars,
    portsVars>>
offPing == <<connVars, srvVars, helperVars, scenVars, readerVars, smtpVars,
             verifyVars,
    buildVars,
    waitVars,
    mainVars,
    dataVars,
    countVars,
    stressVars,
    portsVars>>
offBuild == <<connVars, srvVars, helperVars, scenVars,
    readerVars, smtpVars, verifyVars, pingVars,
    waitVars,
    mainVars,
    dataVars,
    countVars,
    stressVars,
    portsVars>>
offWait == <<connVars, srvVars, helperVars, scenVars,
    readerVars, smtpVars, verifyVars, pingVars,
    buildVars,
    mainVars,
    dataVars,
    countVars,
    stressVars,
    portsVars>>
offMain == <<connVars, srvVars, helperVars, scenVars,
    readerVars, smtpVars, verifyVars, pingVars,
    buildVars, waitVars,
    dataVars,
    countVars,
    stressVars,
    portsVars>>
offData == <<connVars, srvVars, helperVars, scenVars,
    readerVars, smtpVars, verifyVars, pingVars,
    buildVars, waitVars, mainVars,
    countVars,
    stressVars,
    portsVars>>
offCount == <<connVars, srvVars, helperVars, scenVars,
    readerVars, smtpVars, verifyVars, pingVars,
    buildVars, waitVars, mainVars, dataVars,
    stressVars,
    portsVars>>
offStress == <<connVars, srvVars, helperVars, scenVars,
    readerVars, smtpVars, verifyVars, pingVars,
    buildVars, waitVars, mainVars, dataVars,
    countVars,
    portsVars>>
offPorts == <<connVars, srvVars, helperVars, scenVars,
    readerVars, smtpVars, verifyVars, pingVars,
    buildVars, waitVars, mainVars, dataVars,
    countVars, stressVars>>

NoOp == [op |-> "none", tag |-> NoTag, untagged |-> <<>>]
NoResult == [op |-> "none", tag |-> NoTag, outcome |-> "none", status |-> <<>>,
             untagged |-> <<>>, line |-> <<>>, exists |-> -1]

\* What a call of the line reader gave its caller.
Gave(kind, val) == [kind |-> kind, val |-> val]

\* What a helper's call for command number n returned to its caller.
Returned(n, resp) == [n |-> n, resp |-> resp]

\* ------------------------------------------------------------- the line reader
\* time.time() + timeout
IdleDeadline(now, timeout) == now + timeout
\* The recv that follows a recv made at time now with the socket timeout slice
\* times out slice later: the timeout is per recv, not per line.
NextRecvEnd(now, slice) == now + slice
\* A reader that forgets an unfinished line when a recv times out.
DroppedAtTimeout(buf) == <<>>
\* self.buffer when a recv times out: untouched.
KeptAtTimeout(buf) == buf
HasCRLF(buf) == \E i \in 1..Len(buf) : buf[i] = CRLF
FirstCRLF(buf) == CHOOSE i \in 1..Len(buf) :
                    buf[i] = CRLF /\ \A j \in 1..(i - 1) : buf[j] # CRLF

\* IMAPClient._read_line: while no terminator is buffered, recv appends what
\* arrived; the tokens taken from the socket in all are k.  With a terminator
\* already buffered nothing is received; otherwise the last recv brought the
\* first terminator and any number of tokens after it.
RecvCounts(buf, net) ==
    IF HasCRLF(buf) THEN {0}
    ELSE IF HasCRLF(net) THEN FirstCRLF(net)..Len(net)
    ELSE {}
LineOf(buf) == SubSeq(buf, 1, FirstCRLF(buf) - 1)
RestOf(buf) == SubSeq(buf, FirstCRLF(buf) + 1, Len(buf))
Received(k) == buffer \o SubSeq(s2c, 1, k)
Drop(seq, k) == SubSeq(seq, k + 1, Len(seq))

\* line.startswith(f"{tag} "): the first token is the tag and a space follows.
IsTagged(line, tag) == Len(line) >= 2 /\ line[1] = tag
\* connect with a slip: any first line is taken as the greeting.
GreetingAny(line) == TRUE

\* greeting.startswith("* OK")
GreetingOK(line) == Len(line) >= 2 /\ line[1] = STAR /\ line[2] = OK
\* idle_start with a slip: the line read is not looked at.
ContinuationAny(line) == TRUE

\* line.startswith("+")
IsContinuation(line) ==
    Len(line) >= 1 /\ Len(line[1]) >= 1 /\ line[1][1] = "+"
\* "EXISTS" in line
HasExists(line) == \E i \in 1..Len(line) : line[i] = EXISTS

\* select with a slip: the untagged lines are not looked at.
ExistsCountUnset(untagged, acc) == acc

RECURSIVE ExistsCount(_, _)
\* IMAPClient.select: the count of the last untagged line that holds EXISTS
\* (parts = line.split(); int(parts[1])), acc when there is none.
ExistsCount(untagged, acc) ==
    IF untagged = <<>> THEN acc
    ELSE LET l == Head(untagged)
         IN  ExistsCount(Tail(untagged),
                         IF HasExists(l) THEN ParseInt(l[2]) ELSE acc)
\* ------------------------------------------------------------ the server
\* The server under test (spec 4.3 and 6): it answers every command line with
\* one line tagged with that command's tag, after the untagged lines of the
\* answer; it accepts a command only in a state the command is valid in; while
\* it serves IDLE it rejects every line but DONE and keeps idling.
Line(toks) == toks \o <<CRLF>>
Num(n) == Digits(n)
ExistsLine(n) == Line(<<STAR, Num(n), EXISTS>>)
RecentLine(n) == Line(<<STAR, Num(n), W("RECENT")>>)
TaggedLine(tag, status) == Line(<<tag, status, W("done")>>)
\* An untagged FETCH line; its payload may hold any text, the tag included.
FetchLine(payload) == Line(<<STAR, Num(1), W("FETCH"), payload, W(")")>>)

ValidIn(cmd) ==
    CASE cmd = "LOGIN"  -> {"notauth"}
      [] cmd = "SELECT" -> {"auth", "selected"}
      [] cmd = "FETCH"  -> {"selected"}
      [] cmd = "IDLE"   -> {"auth", "selected"}
      [] cmd = "LOGOUT" -> {"notauth", "auth", "selected"}
      [] OTHER          -> {}

Answer(tag, cmd, status) == [tag |-> tag, cmd |-> cmd, status |-> status]

\* The greeting, sent once the connection is accepted.
SrvGreet ==
    /\ srv = "new"
    /\ \E accept \in BOOLEAN :
         IF accept
         THEN /\ s2c' = s2c \o Line(<<STAR, OK, W("ready")>>)
              /\ srv' = "notauth"
              /\ eof' = eof
         ELSE /\ s2c' = s2c \o Line(<<STAR, W("BYE"), W("busy")>>)
              /\ srv' = "closed"
              /\ eof' = TRUE
    /\ UNCHANGED <<sock, tag_counter, buffer, c2s, wire, pc, idle_tag, result,
                   cstate, prev_state, srvIdleTag, srvBack, srvExists, pushes,
                   answered>>
    /\ UNCHANGED offConn

\* A line that arrives while the server serves IDLE.
SrvIdleLine ==
    /\ srv = "idle"
    /\ c2s # <<>>
    /\ LET c == Head(c2s)
       IN  IF c.cmd = "DONE"
           THEN /\ s2c' = s2c \o TaggedLine(srvIdleTag, OK)
                /\ answered' = answered \cup {Answer(srvIdleTag, "DONE", OK)}
                /\ srv' = srvBack
           ELSE /\ s2c' = s2c \o TaggedLine(c.tag, BAD)
                /\ answered' = answered \cup {Answer(c.tag, c.cmd, BAD)}
                /\ srv' = srv
    /\ c2s' = Tail(c2s)
    /\ UNCHANGED <<sock, tag_counter, buffer, eof, wire, pc, idle_tag, result,
                   cstate, prev_state, srvIdleTag, srvBack, srvExists, pushes>>
    /\ UNCHANGED offConn

\* A command the server rejects: one tagged NO or BAD line.
SrvReject ==
    /\ srv \in {"notauth", "auth", "selected"}
    /\ c2s # <<>>
    /\ LET c == Head(c2s)
       IN  /\ c.cmd # "LOGOUT"
           /\ \E status \in (IF srv \in ValidIn(c.cmd) THEN {NO} ELSE {BAD}) :
                /\ s2c' = s2c \o TaggedLine(c.tag, status)
                /\ answered' = answered \cup {Answer(c.tag, c.cmd, status)}
    /\ c2s' = Tail(c2s)
    /\ UNCHANGED <<sock, tag_counter, buffer, eof, wire, pc, idle_tag, result,
                   cstate, prev_state, srv, srvIdleTag, srvBack, srvExists,
                   pushes>>
    /\ UNCHANGED offConn

\* LOGIN, SELECT and FETCH accepted: the untagged lines, then the tagged OK.
SrvAccept ==
    /\ srv \in {"notauth", "auth", "selected"}
    /\ c2s # <<>>
    /\ LET c == Head(c2s)
       IN  /\ c.cmd \in {"LOGIN", "SELECT", "FETCH"}
           /\ srv \in ValidIn(c.cmd)
           /\ \E mention \in BOOLEAN :
                s2c' = s2c \o
                   (CASE c.cmd = "SELECT" -> ExistsLine(srvExists)
                      [] c.cmd = "FETCH" ->
                           FetchLine(IF mention THEN c.tag ELSE W("x"))
                      [] OTHER -> <<>>)
                   \o TaggedLine(c.tag, OK)
           /\ answered' = answered \cup {Answer(c.tag, c.cmd, OK)}
           /\ srv' = CASE c.cmd = "LOGIN" -> "auth"
                       [] c.cmd = "SELECT" -> "selected"
                       [] OTHER -> srv
    /\ c2s' = Tail(c2s)
    /\ UNCHANGED <<sock, tag_counter, buffer, eof, wire, pc, idle_tag, result,
                   cstate, prev_state, srvIdleTag, srvBack, srvExists, pushes>>
    /\ UNCHANGED offConn

\* IDLE accepted: the continuation line, which an unsolicited line may precede.
SrvIdle ==
    /\ srv \in {"auth", "selected"}
    /\ c2s # <<>>
    /\ Head(c2s).cmd = "IDLE"
    /\ \E first \in BOOLEAN :
         s2c' = s2c \o (IF first THEN RecentLine(srvExists) ELSE <<>>)
                    \o Line(<<PLUS, W("idling")>>)
    /\ answered' = answered \cup {Answer(Head(c2s).tag, "IDLE", PLUS)}
    /\ srvIdleTag' = Head(c2s).tag
    /\ srvBack' = srv
    /\ srv' = "idle"
    /\ c2s' = Tail(c2s)
    /\ UNCHANGED <<sock, tag_counter, buffer, eof, wire, pc, idle_tag, result,
                   cstate, prev_state, srvExists, pushes>>
    /\ UNCHANGED offConn

\* LOGOUT: BYE, the tagged OK, and the server closes.
SrvLogout ==
    /\ srv \in {"notauth", "auth", "selected"}
    /\ c2s # <<>>
    /\ Head(c2s).cmd = "LOGOUT"
    /\ s2c' = s2c \o Line(<<STAR, W("BYE")>>) \o TaggedLine(Head(c2s).tag, OK)
    /\ answered' = answered \cup {Answer(Head(c2s).tag, "LOGOUT", OK)}
    /\ srv' = "closed"
    /\ eof' = TRUE
    /\ c2s' = Tail(c2s)
    /\ UNCHANGED <<sock, tag_counter, buffer, wire, pc, idle_tag, result,
                   cstate, prev_state, srvIdleTag, srvBack, srvExists, pushes>>
    /\ UNCHANGED offConn

\* A message arrives while the connection idles: the server pushes EXISTS
\* (or another unsolicited line).
SrvPush ==
    /\ srv = "idle"
    /\ pushes < MaxPush
    /\ pushes' = pushes + 1
    /\ \E delivered \in BOOLEAN :
         IF delivered
         THEN /\ srvExists' = srvExists + 1
              /\ s2c' = s2c \o ExistsLine(srvExists + 1)
         ELSE /\ srvExists' = srvExists
              /\ s2c' = s2c \o RecentLine(srvExists)
    /\ UNCHANGED <<sock, tag_counter, buffer, c2s, eof, wire, pc, idle_tag,
                   result, cstate, prev_state, srv, srvIdleTag, srvBack,
                   answered>>
    /\ UNCHANGED offConn

Server == SrvGreet \/ SrvIdleLine \/ SrvReject \/ SrvAccept \/ SrvIdle
          \/ SrvLogout \/ SrvPush
\* ------------------------------------------------------------ IMAPClient
Cmd(tag, cmd) == [tag |-> tag, cmd |-> cmd]
Reading(op) == [op |-> op, tag |-> NoTag, untagged |-> <<>>]
Finished(op, tag, outcome, status, untagged, line, exists) ==
    [op |-> op, tag |-> tag, outcome |-> outcome, status |-> status,
     untagged |-> untagged, line |-> line, exists |-> exists]
Raised(op, tag, line) == Finished(op, tag, "raise", <<>>, <<>>, line, -1)
Idle == pc.op = "none"

\* IMAPClient.connect, up to the read of the greeting.
Connect ==
    /\ Idle
    /\ sock = "none"
    /\ srv = "down"
    /\ sock' = "open"
    /\ srv' = "new"
    /\ pc' = Reading("connect")
    /\ UNCHANGED <<tag_counter, buffer, s2c, c2s, eof, wire, idle_tag, result,
                   cstate, prev_state, srvIdleTag, srvBack, srvExists, pushes,
                   answered>>
    /\ UNCHANGED offConn

\* IMAPClient.connect: the greeting is read and checked.
ConnectRead ==
    /\ pc.op = "connect"
    /\ \E k \in RecvCounts(buffer, s2c) :
         LET line == LineOf(Received(k))
         IN  /\ buffer' = RestOf(Received(k))
             /\ s2c' = Drop(s2c, k)
             /\ IF GreetingOK(line)
                THEN /\ cstate' = "Connected"
                     /\ result' = Finished("connect", NoTag, "ok", <<>>, <<>>,
                                           line, -1)
                ELSE /\ cstate' = cstate
                     /\ result' = Raised("connect", NoTag, line)
    /\ pc' = NoOp
    /\ UNCHANGED <<sock, tag_counter, c2s, eof, wire, idle_tag, prev_state,
                   srvVars>>
    /\ UNCHANGED offConn

\* _send_command with a slip: IDLE is written with the tag of the command
\* before it, the counter left as it was.
SendCommandReuse(op, cmd) ==
    /\ Idle
    /\ sock = "open"
    /\ tag_counter < MaxCmds
    /\ Len(wire) < 2 * MaxCmds
    /\ tag_counter' = IF cmd = "IDLE" THEN tag_counter ELSE tag_counter + 1
    /\ LET tag == FormatTag(tag_counter')
       IN  /\ c2s' = Append(c2s, Cmd(tag, cmd))
           /\ wire' = Append(wire, tag)
           /\ pc' = [op |-> op, tag |-> tag, untagged |-> <<>>]
    /\ UNCHANGED <<sock, buffer, s2c, eof, idle_tag, result, cstate,
                   prev_state, srvVars>>
    /\ UNCHANGED offConn

\* IMAPClient._send_command, as the first step of the call op.
SendCommand(op, cmd) ==
    /\ Idle
    /\ sock = "open"
    /\ tag_counter < MaxCmds
    /\ tag_counter' = tag_counter + 1
    /\ LET tag == FormatTag(tag_counter + 1)
       IN  /\ c2s' = Append(c2s, Cmd(tag, cmd))
           /\ wire' = Append(wire, tag)
           /\ pc' = [op |-> op, tag |-> tag, untagged |-> <<>>]
    /\ UNCHANGED <<sock, buffer, s2c, eof, idle_tag, result, cstate,
                   prev_state, srvVars>>
    /\ UNCHANGED offConn

Login == SendCommand("login", "LOGIN")
Select == SendCommand("select", "SELECT")
Fetch == SendCommand("fetch", "FETCH")
Logout == SendCommand("logout", "LOGOUT")
IdleStart == SendCommand("idle_start", "IDLE")

\* IMAPClient.idle_done: DONE is written; the answer to the IDLE tag is awaited.
IdleDone ==
    /\ Idle
    /\ sock = "open"
    /\ idle_tag # NoTag
    /\ c2s' = Append(c2s, Cmd(NoTag, "DONE"))
    /\ wire' = Append(wire, DONE)
    /\ pc' = [op |-> "idle_done", tag |-> idle_tag, untagged |-> <<>>]
    /\ idle_tag' = NoTag
    /\ UNCHANGED <<sock, tag_counter, buffer, s2c, eof, result, cstate,
                   prev_state, srvVars>>
    /\ UNCHANGED offConn

\* What a call that read its tagged line does with it: login, select, fetch,
\* logout and idle_done after _read_response returned (status, message, untagged).
Complete(op, tag, status, untagged, line) ==
    CASE op = "login" ->
           /\ result' = Finished(op, tag, IF status = OK THEN "true" ELSE "false",
                                 status, untagged, line, -1)
           /\ cstate' = IF status = OK THEN "Authenticated" ELSE cstate
           /\ UNCHANGED <<sock, prev_state>>
      [] op = "select" ->
           /\ result' = IF status # OK THEN Raised(op, tag, line)
                        ELSE Finished(op, tag, "ok", status, untagged, line,
                                      ExistsCount(untagged, -1))
           /\ cstate' = IF status = OK THEN "Selected" ELSE cstate
           /\ UNCHANGED <<sock, prev_state>>
      [] op = "fetch" ->
           /\ result' = IF status # OK THEN Raised(op, tag, line)
                        ELSE Finished(op, tag, "ok", status, untagged, line, -1)
           /\ UNCHANGED <<sock, cstate, prev_state>>
      [] op = "idle_done" ->
           /\ result' = Finished(op, tag, IF status = OK THEN "true" ELSE "false",
                                 status, untagged, line, -1)
           /\ cstate' = IF cstate = "Idling" THEN prev_state ELSE cstate
           /\ UNCHANGED <<sock, prev_state>>
      [] op = "logout" ->
           /\ result' = Finished(op, tag, "ok", status, untagged, line, -1)
           /\ sock' = "none"
           /\ cstate' = "Disconnected"
           /\ UNCHANGED prev_state

\* IMAPClient._read_response: one turn of its loop.  A line that starts with
\* the tag ends the call (status = parts[1]); any other line is kept as untagged.
ResponseRead ==
    /\ pc.op \in {"login", "select", "fetch", "logout", "idle_done"}
    /\ \E k \in RecvCounts(buffer, s2c) :
         LET line == LineOf(Received(k))
         IN  /\ buffer' = RestOf(Received(k))
             /\ s2c' = Drop(s2c, k)
             /\ IF IsTagged(line, pc.tag)
                THEN /\ Complete(pc.op, pc.tag, line[2], pc.untagged, line)
                     /\ pc' = NoOp
                ELSE /\ pc' = [pc EXCEPT !.untagged = Append(@, line)]
                     /\ UNCHANGED <<sock, result, cstate, prev_state>>
    /\ UNCHANGED <<tag_counter, c2s, eof, wire, idle_tag, srvVars>>
    /\ UNCHANGED offConn

\* IMAPClient.idle_start after the command is written: exactly one line is read.
IdleStartRead ==
    /\ pc.op = "idle_start"
    /\ \E k \in RecvCounts(buffer, s2c) :
         LET line == LineOf(Received(k))
         IN  /\ buffer' = RestOf(Received(k))
             /\ s2c' = Drop(s2c, k)
             /\ IF IsContinuation(line)
                THEN /\ result' = Finished("idle_start", pc.tag, "ok", <<>>, <<>>,
                                           line, -1)
                     /\ idle_tag' = pc.tag
                     /\ prev_state' = IF cstate = "Idling" THEN prev_state
                                      ELSE cstate
                     /\ cstate' = "Idling"
                ELSE /\ result' = Raised("idle_start", pc.tag, line)
                     /\ UNCHANGED <<idle_tag, prev_state, cstate>>
    /\ pc' = NoOp
    /\ UNCHANGED <<sock, tag_counter, c2s, eof, wire, srvVars>>
    /\ UNCHANGED offConn
\* IMAPClient.idle_wait is entered: notifications = [], the deadline is set.
IdleWait ==
    /\ Idle
    /\ sock = "open"
    /\ idle_tag # NoTag
    /\ pc' = Reading("idle_wait")
    /\ UNCHANGED <<sock, tag_counter, buffer, s2c, c2s, eof, wire, idle_tag,
                   result, cstate, prev_state, srvVars>>
    /\ UNCHANGED offConn

\* IMAPClient.idle_wait: a slice read returned a line; it is appended, and a
\* line that holds EXISTS ends the wait.
IdleWaitRead ==
    /\ pc.op = "idle_wait"
    /\ \E k \in RecvCounts(buffer, s2c) :
         LET line == LineOf(Received(k))
             seen == Append(pc.untagged, line)
         IN  /\ buffer' = RestOf(Received(k))
             /\ s2c' = Drop(s2c, k)
             /\ IF HasExists(line)
                THEN /\ result' = Finished("idle_wait", NoTag, "ok", <<>>, seen,
                                           line, -1)
                     /\ pc' = NoOp
                ELSE /\ result' = result
                     /\ pc' = [pc EXCEPT !.untagged = seen]
    /\ UNCHANGED <<sock, tag_counter, c2s, eof, wire, idle_tag, cstate,
                   prev_state, srvVars>>
    /\ UNCHANGED offConn

\* IMAPClient.idle_wait: a slice read timed out (socket.timeout) after recv had
\* brought tokens that hold no terminator; they stay in self.buffer.
IdleWaitSlice ==
    /\ pc.op = "idle_wait"
    /\ ~HasCRLF(buffer)
    /\ \E k \in 1..Len(s2c) :
         /\ ~HasCRLF(SubSeq(s2c, 1, k))
         /\ buffer' = buffer \o SubSeq(s2c, 1, k)
         /\ s2c' = Drop(s2c, k)
    /\ UNCHANGED <<sock, tag_counter, c2s, eof, wire, pc, idle_tag, result,
                   cstate, prev_state, srvVars>>
    /\ UNCHANGED offConn

\* IMAPClient.idle_wait: the deadline has passed; the lines seen are returned.
IdleWaitDeadline ==
    /\ pc.op = "idle_wait"
    /\ result' = Finished("idle_wait", NoTag, "ok", <<>>, pc.untagged, <<>>, -1)
    /\ pc' = NoOp
    /\ UNCHANGED <<sock, tag_counter, buffer, s2c, c2s, eof, wire, idle_tag,
                   cstate, prev_state, srvVars>>
    /\ UNCHANGED offConn

\* The closed connection with a slip: logout lets the error through, as the
\* other calls do, and leaves the socket as it is.
ReadClosedRaises ==
    /\ pc.op # "none"
    /\ eof
    /\ RecvCounts(buffer, s2c) = {}
    /\ buffer' = buffer \o s2c
    /\ s2c' = <<>>
    /\ result' = Raised(pc.op, pc.tag, <<>>)
    /\ pc' = NoOp
    /\ UNCHANGED <<sock, cstate, tag_counter, c2s, eof, wire, idle_tag,
                   prev_state, srvVars>>
    /\ UNCHANGED offConn

\* IMAPClient._read_line: recv returned b"" before a terminator was seen:
\* RuntimeError("Connection closed").  logout swallows it and closes.
ReadClosed ==
    /\ pc.op # "none"
    /\ eof
    /\ RecvCounts(buffer, s2c) = {}
    /\ buffer' = buffer \o s2c
    /\ s2c' = <<>>
    /\ IF pc.op = "logout"
       THEN /\ result' = Finished("logout", pc.tag, "ok", <<>>, <<>>, <<>>, -1)
            /\ sock' = "none"
            /\ cstate' = "Disconnected"
       ELSE /\ result' = Raised(pc.op, pc.tag, <<>>)
            /\ UNCHANGED <<sock, cstate>>
    /\ pc' = NoOp
    /\ UNCHANGED <<tag_counter, c2s, eof, wire, idle_tag, prev_state, srvVars>>
    /\ UNCHANGED offConn

\* IMAPClient.logout on a connection the server has closed: sendall raises
\* after the counter was incremented; the except clause swallows the error
\* and the finally clause closes the socket.
LogoutWriteFails ==
    /\ Idle
    /\ sock = "open"
    /\ eof
    /\ tag_counter < MaxCmds
    /\ tag_counter' = tag_counter + 1
    /\ result' = Finished("logout", FormatTag(tag_counter + 1), "ok", <<>>,
                          <<>>, <<>>, -1)
    /\ sock' = "none"
    /\ cstate' = "Disconnected"
    /\ UNCHANGED <<buffer, s2c, c2s, wire, pc, idle_tag, prev_state, eof,
                   srvVars>>
    /\ UNCHANGED offConn

\* IMAPClient.close
Close ==
    /\ Idle
    /\ sock = "open"
    /\ sock' = "none"
    /\ cstate' = "Disconnected"
    /\ result' = Finished("close", NoTag, "ok", <<>>, <<>>, <<>>, -1)
    /\ srv' = "gone"
    /\ UNCHANGED <<tag_counter, buffer, s2c, c2s, eof, wire, pc, idle_tag,
                   prev_state, srvIdleTag, srvBack, srvExists, pushes,
                   answered>>
    /\ UNCHANGED offConn

Client == Connect \/ ConnectRead \/ Login \/ Select \/ Fetch \/ Logout
          \/ IdleStart \/ IdleStartRead \/ IdleWait \/ IdleWaitRead
          \/ IdleWaitSlice \/ IdleWaitDeadline \/ IdleDone \/ ResponseRead
          \/ ReadClosed \/ Close \/ LogoutWriteFails

\* IMAPClient.__init__, before any connection exists.
ConnInit ==
    /\ sock = "none"
    /\ tag_counter = 0
    /\ buffer = <<>>
    /\ s2c = <<>>
    /\ c2s = <<>>
    /\ eof = FALSE
    /\ wire = <<>>
    /\ pc = NoOp
    /\ idle_tag = NoTag
    /\ result = NoResult
    /\ cstate = "Disconnected"
    /\ prev_state = "Disconnected"
    /\ srv = "down"
    /\ srvIdleTag = NoTag
    /\ srvBack = "down"
    /\ srvExists = 0
    /\ pushes = 0
    /\ answered = {}

HelperOff ==
    /\ h_kind = "off"
    /\ h_cmds = <<>>
    /\ h_tag = 0
    /\ h_pc = "off"
    /\ h_resp = <<>>
    /\ h_net = <<>>
    /\ h_srvq = <<>>
    /\ h_ret = Returned(0, <<>>)
    /\ h_reply = <<>>

ConnOff ==
    /\ sock = "none"
    /\ tag_counter = 0
    /\ buffer = <<>>
    /\ s2c = <<>>
    /\ c2s = <<>>
    /\ eof = FALSE
    /\ wire = <<>>
    /\ pc = NoOp
    /\ idle_tag = NoTag
    /\ result = NoResult
    /\ cstate = "Disconnected"
    /\ prev_state = "Disconnected"
    /\ srv = "off"
    /\ srvIdleTag = NoTag
    /\ srvBack = "off"
    /\ srvExists = 0
    /\ pushes = 0
    /\ answered = {}

ReaderOff ==
    /\ r_stream = <<>>
    /\ r_arrived = 0
    /\ r_taken = 0
    /\ r_closed = FALSE
    /\ r_buf = <<>>
    /\ r_lines = <<>>
    /\ r_pc = "off"
    /\ r_now = 0
    /\ r_deadline = 0
    /\ r_slice = 0
    /\ r_recv_end = 0
    /\ r_notifs = <<>>
    /\ r_ret = Gave("none", <<>>)
    /\ r_cut = FALSE

SmtpOff ==
    /\ m_kind = "off"
    /\ m_step = 0
    /\ m_pc = "off"
    /\ m_wire = <<>>
    /\ m_net = <<>>
    /\ m_data = <<>>
    /\ m_lines = <<>>
    /\ m_raw = <<>>
    /\ m_sent = <<>>
    /\ m_codes = <<>>
    /\ m_pending = FALSE
    /\ m_eof = FALSE
    /\ m_empty = 0
    /\ m_ret = [n |-> 0, kind |-> "none", raw |-> <<>>]
    /\ m_dataret = "none"
    /\ m_out = [n |-> 0, how |-> "none", val |-> "none"]
    /\ m_sock = "none"

BuildOff ==
    /\ b_kind = "off"
    /\ b_pc = "off"
    /\ b_len = 0
    /\ b_header = <<>>
    /\ b_data = <<>>
    /\ b_armor = <<>>
    /\ b_to = <<>>
    /\ b_msg = <<>>

WaitOff ==
    /\ w_kind = "off"
    /\ w_pc = "off"
    /\ w_now = 0
    /\ w_slice = 0
    /\ w_idx = 0
    /\ w_pending = 0
    /\ w_left = 0
    /\ w_ev = <<>>
    /\ w_q = 0
    /\ w_sender = "none"

MainOff ==
    /\ e_kind = "off"
    /\ e_pc = "off"
    /\ e_srv = "none"
    /\ e_res = <<>>
    /\ e_success = FALSE
    /\ e_exit = -1
    /\ e_code = -1

DataOff ==
    /\ d_kind = "off"
    /\ d_pc = "off"
    /\ d_msg = <<>>
    /\ d_sent = <<>>

CountOff ==
    /\ k_snd = "off"
    /\ k_seq = 0
    /\ k_out = {}
    /\ k_sent = 0
    /\ k_q = <<>>
    /\ k_made = 0
    /\ k_main = "off"
    /\ k_received = 0
    /\ k_pending = 0
    /\ k_seen = {}

StressOff ==
    /\ x_users = 0
    /\ x_workers = 0
    /\ x_per = <<>>
    /\ x_main = "off"
    /\ x_wk = <<>>
    /\ x_res = <<>>
    /\ x_put = <<>>
    /\ x_queue = <<>>
    /\ x_results = <<>>
    /\ x_report = <<>>

PortsOff ==
    /\ f_pc = "off"
    /\ f_i = 0
    /\ f_rules = {}
    /\ f_results = <<>>
    /\ f_lost = FALSE

VerifyOff ==
    /\ v_pc = "off"
    /\ v_i = 0
    /\ v_counts = <<>>
    /\ v_succ = <<>>
    /\ v_failed = <<>>
    /\ v_ret = "none"

PingOff ==
    /\ p_main = "off"
    /\ p_idx = 0
    /\ p_started = 0
    /\ p_thr = <<>>
    /\ p_ev = <<>>
    /\ p_q = <<>>
    /\ p_pending = 0
    /\ p_made = 0
    /\ p_reads = <<>>

ScenOff ==
    /\ t_pc = "off"
    /\ t_i = 0
    /\ t_conn = <<>>
    /\ t_ev = <<>>
    /\ t_idle_clients = 0
    /\ t_tmp = 0
    /\ t_smtp = "none"
    /\ t_smtp_log = <<>>
    /\ t_accepted = FALSE
    /\ t_now = 0
    /\ t_deadline = 0
    /\ t_pushed = <<>>
    /\ t_seen = <<>>
    /\ t_done = <<>>
    /\ t_notifs = <<>>
    /\ t_msgs = <<>>
    /\ t_has = <<>>
    /\ t_fault = 0
    /\ t_ret = "none"

\* One IMAPClient and the server it talks to, driven by any caller.
Init == ConnInit /\ HelperOff /\ ScenOff /\ ReaderOff /\ SmtpOff
        /\ VerifyOff /\ PingOff /\ BuildOff /\ WaitOff /\ MainOff /\ DataOff /\ CountOff /\ StressOff /\ PortsOff

Next == Client \/ Server

Spec == Init /\ [][Next]_vars
\* ------------------------------------------------- the chunk-based helpers
\* test_13 imap_cmd and test_12 imap_session read the socket by chunks
\* (sock.recv(4096)) and keep no buffer between calls.  A chunk is any
\* non-empty prefix of what the server has sent and the client has not yet
\* received.  The blank that separates two words travels with the word after it.

\* f"A{tag:03d}" (test_13 imap_cmd), and the literals A001..A005 of test_12.
HelperTagWidth == 3
HelperTag(n) == <<"A">> \o ZeroPad(Digits(n), HelperTagWidth)

\* The command sequences the helpers' callers issue on one connection.
HelperSessions(kind) ==
    IF kind = "cmd13"
    THEN {<<"LOGIN", "LOGOUT">>,
          <<"LOGIN", "SELECT", "LOGOUT">>,
          <<"LOGIN", "SELECT", "FETCH", "LOGOUT">>}
    ELSE {<<"LOGIN", "SELECT", "CREATE", "DELETE", "LOGOUT">>}

\* f"A{tag:03d} ".encode() in response: the tag occurs as a word of the
\* response with a blank after it, wherever that is.
TagIn(tag, resp) ==
    \E i \in 1..Len(resp) - 1 : resp[i] = tag /\ resp[i + 1] # CRLF

\* "OK" in response
OKIn(resp) == \E i \in 1..Len(resp) : resp[i] = OK

\* test_13, mailbox check: message_count is the number before EXISTS in the
\* last line that holds one; has_message = message_count > 0.
HasMessage(resp) ==
    LET at == {i \in 2..Len(resp) : resp[i] = EXISTS}
        last == CHOOSE i \in at : \A j \in at : j <= i
    IN  at # {} /\ ParseInt(resp[last - 1]) > 0

\* The server's reply to one command: the untagged lines of the answer, then
\* the line tagged with the command's tag.
HelperReplies(tag, cmd) ==
    LET final == {TaggedLine(tag, st) : st \in {OK, NO}}
        before == CASE cmd = "SELECT" -> {ExistsLine(0), ExistsLine(1)}
                    [] cmd = "FETCH" -> {FetchLine(W("body")), FetchLine(tag)}
                    [] cmd = "LOGOUT" -> {Line(<<STAR, W("BYE")>>)}
                    [] OTHER -> {<<>>}
    IN  {u \o f : u \in before, f \in final}

HelperBanner == Line(<<STAR, OK, W("ready")>>)

\* The server accepts the connection and sends its greeting.
HSrvGreet ==
    /\ h_pc # "off"
    /\ h_reply = <<>>
    /\ h_reply' = <<HelperBanner>>
    /\ h_net' = h_net \o HelperBanner
    /\ UNCHANGED <<h_kind, h_cmds, h_tag, h_pc, h_resp, h_srvq, h_ret>>
    /\ UNCHANGED offHelper

\* The server reads one command and sends its reply.
HSrvReply ==
    /\ h_srvq # <<>>
    /\ h_reply # <<>>
    /\ \E r \in HelperReplies(Head(h_srvq).tag, Head(h_srvq).cmd) :
        /\ h_reply' = Append(h_reply, r)
        /\ h_net' = h_net \o r
    /\ h_srvq' = Tail(h_srvq)
    /\ UNCHANGED <<h_kind, h_cmds, h_tag, h_pc, h_resp, h_ret>>
    /\ UNCHANGED offHelper

\* "Read banner": sock.recv(4096), the chunk is dropped.
HBanner ==
    /\ h_pc = "banner"
    /\ \E k \in 1..Len(h_net) :
        h_net' = Drop(h_net, k)
    /\ h_pc' = "send"
    /\ UNCHANGED <<h_kind, h_cmds, h_tag, h_resp, h_srvq, h_ret, h_reply>>
    /\ UNCHANGED offHelper

\* imap_cmd: tag += 1, the command is sent, response = b"".  test_12 sends
\* its next literal command.
HSend ==
    /\ h_pc = "send"
    /\ h_tag < Len(h_cmds)
    /\ h_tag' = h_tag + 1
    /\ h_srvq' = Append(h_srvq, Cmd(HelperTag(h_tag + 1), h_cmds[h_tag + 1]))
    /\ h_resp' = <<>>
    /\ h_pc' = "recv"
    /\ UNCHANGED <<h_kind, h_cmds, h_net, h_ret, h_reply>>
    /\ UNCHANGED offHelper

\* What the caller does with the response of command number n: a LOGIN (and,
\* in test_13, a SELECT) whose response holds no "OK" ends the session as
\* failed, and so does a mailbox without a message when a FETCH is to follow;
\* after LOGOUT the socket is closed.
HelperAfter(n, resp) ==
    LET cmd == h_cmds[n]
        checked == cmd = "LOGIN" \/ (h_kind = "cmd13" /\ cmd = "SELECT")
        counted == cmd = "SELECT" /\ n < Len(h_cmds) /\ h_cmds[n + 1] = "FETCH"
    IN  IF checked /\ ~OKIn(resp) THEN "failed"
        ELSE IF counted /\ ~HasMessage(resp) THEN "failed"
        ELSE IF n = Len(h_cmds) THEN "ok"
        ELSE "send"

\* test_13 imap_cmd: one turn of its loop.  The chunk is appended; the call
\* returns the whole response as soon as the tag is found in it.
HRecvCmd ==
    /\ h_kind = "cmd13"
    /\ h_pc = "recv"
    /\ \E k \in 1..Len(h_net) :
        LET resp == h_resp \o SubSeq(h_net, 1, k)
        IN  /\ h_net' = Drop(h_net, k)
            /\ IF TagIn(HelperTag(h_tag), resp)
               THEN /\ h_ret' = Returned(h_tag, resp)
                    /\ h_resp' = <<>>
                    /\ h_pc' = HelperAfter(h_tag, resp)
               ELSE /\ h_resp' = resp
                    /\ UNCHANGED <<h_ret, h_pc>>
    /\ UNCHANGED <<h_kind, h_cmds, h_tag, h_srvq, h_reply>>
    /\ UNCHANGED offHelper

\* test_12 imap_session: response = sock.recv(4096), one chunk per command.
HRecvSession ==
    /\ h_kind = "sess12"
    /\ h_pc = "recv"
    /\ \E k \in 1..Len(h_net) :
        LET resp == SubSeq(h_net, 1, k)
        IN  /\ h_net' = Drop(h_net, k)
            /\ h_ret' = Returned(h_tag, resp)
            /\ h_pc' = HelperAfter(h_tag, resp)
    /\ h_resp' = <<>>
    /\ UNCHANGED <<h_kind, h_cmds, h_tag, h_srvq, h_reply>>
    /\ UNCHANGED offHelper

\* sock.settimeout(10): nothing arrived in time; socket.timeout ends the
\* session in its except clause.
HTimeout ==
    /\ h_pc \in {"banner", "recv"}
    /\ h_net = <<>>
    /\ h_pc' = "failed"
    /\ UNCHANGED <<h_kind, h_cmds, h_tag, h_resp, h_net, h_srvq, h_ret, h_reply>>
    /\ UNCHANGED offHelper

\* One helper session on a fresh connection: tag = 0, nothing received.
HelperInit ==
    /\ h_kind \in {"cmd13", "sess12"}
    /\ h_cmds \in HelperSessions(h_kind)
    /\ h_tag = 0
    /\ h_pc = "banner"
    /\ h_resp = <<>>
    /\ h_net = <<>>
    /\ h_srvq = <<>>
    /\ h_ret = Returned(0, <<>>)
    /\ h_reply = <<>>

InitHelper == ConnOff /\ HelperInit /\ ScenOff /\ ReaderOff /\ SmtpOff
        /\ VerifyOff /\ PingOff /\ BuildOff /\ WaitOff /\ MainOff /\ DataOff /\ CountOff /\ StressOff /\ PortsOff

NextHelper == HSrvGreet \/ HSrvReply \/ HBanner \/ HSend \/ HRecvCmd
                  \/ HRecvSession \/ HTimeout

SpecHelper == InitHelper /\ [][NextHelper]_vars

\* ------------------------------------------------ test_idle_notification
\* The scenario function of test_14, statement by statement.  Each IMAPClient
\* or SMTPClient call is one step whose outcome (a value or an exception) is
\* the environment's choice; t_fault counts the times the server or the
\* network did something other than accept the call and answer at once.  Time passes
\* only while idle_wait blocks on a connection that holds no line.

\* recipients = [... for i in range(1, 5)]
NumRecipients == 4
\* all_users = [sender] + recipients
NumUsers == NumRecipients + 1
\* client.idle_wait(timeout=10)
WaitTimeout == 10
\* Seconds within which a server that is not at fault has pushed EXISTS to
\* every idling connection after it accepted the message.
PushWithin == 2

Recipients == 1..NumRecipients

\* The SMTP commands of the submission, in order.
SmtpScript == <<"EHLO", "AUTH", "MAIL">> \o [i \in Recipients |-> "RCPT"]
                  \o <<"DATA", "QUIT">>

\* idle_wait with a slip: the deadline is the time of the call, no timeout added.
WaitDeadlineNow(now) == now

\* idle_wait: deadline = time.time() + timeout
WaitDeadline(now) == now + WaitTimeout

\* Which recipients' mailboxes hold the message once it is accepted: all of
\* them, or (a fault) all but the last.
Deliveries == {[i \in Recipients |-> TRUE], [i \in Recipients |-> i # NumRecipients]}

Last(seq) == seq[Len(seq)]
All(bools) == \A k \in 1..Len(bools) : bools[k]
Did(i, what) == [t_ev EXCEPT ![i] = @ \o what]

\* return <value> from the function
TReturn(v) == t_pc' = "returned" /\ t_ret' = v

\* "Create 5 users": connect, login, logout for one user.
TCreateUser ==
    /\ t_pc = "create"
    /\ IF t_i < NumUsers
       THEN t_i' = t_i + 1 /\ t_pc' = "create"
       ELSE t_i' = 1 /\ t_pc' = "setup"
    /\ UNCHANGED <<t_conn, t_ev, t_idle_clients, t_tmp, t_smtp, t_smtp_log,
                   t_accepted, t_now, t_deadline, t_pushed, t_seen, t_done,
                   t_notifs, t_msgs, t_has, t_fault, t_ret>>
    /\ UNCHANGED offScen

\* "Create 5 users": login returned False, or a call raised: return False.
\* The client of the failed login is left open.
TCreateFail ==
    /\ t_pc = "create"
    /\ \E raised \in BOOLEAN :
        t_tmp' = IF raised THEN t_tmp ELSE t_tmp + 1
    /\ t_fault < MaxFaults
    /\ t_fault' = t_fault + 1
    /\ TReturn("false")
    /\ UNCHANGED <<t_i, t_conn, t_ev, t_idle_clients, t_smtp, t_smtp_log,
                   t_accepted, t_now, t_deadline, t_pushed, t_seen, t_done,
                   t_notifs, t_msgs, t_has>>
    /\ UNCHANGED offScen

\* "Put recipients in IDLE mode": connect, login, select, idle_start all
\* succeed for recipient t_i; the client and its tag are appended.
TSetupIdle ==
    /\ t_pc = "setup"
    /\ t_conn' = [t_conn EXCEPT ![t_i] = "open"]
    /\ t_ev' = Did(t_i, <<"LOGIN", "SELECT", "IDLE">>)
    /\ t_idle_clients' = t_idle_clients + 1
    /\ IF t_i < NumRecipients
       THEN t_i' = t_i + 1 /\ t_pc' = "setup"
       ELSE t_i' = 0 /\ t_pc' = "sleep"
    /\ UNCHANGED <<t_tmp, t_smtp, t_smtp_log, t_accepted, t_now, t_deadline,
                   t_pushed, t_seen, t_done, t_notifs, t_msgs, t_has,
                   t_fault, t_ret>>
    /\ UNCHANGED offScen

\* login returned False for recipient t_i: return False, nothing is closed.
TSetupLoginFalse ==
    /\ t_pc = "setup"
    /\ t_conn' = [t_conn EXCEPT ![t_i] = "open"]
    /\ t_ev' = Did(t_i, <<"LOGIN">>)
    /\ t_fault < MaxFaults
    /\ t_fault' = t_fault + 1
    /\ TReturn("false")
    /\ UNCHANGED <<t_i, t_idle_clients, t_tmp, t_smtp, t_smtp_log, t_accepted,
                   t_now, t_deadline, t_pushed, t_seen, t_done, t_notifs,
                   t_msgs, t_has>>
    /\ UNCHANGED offScen

\* connect, login, select or idle_start raised for recipient t_i: the except
\* clause closes every client in idle_clients and returns False.
TSetupRaise ==
    /\ t_pc = "setup"
    /\ t_conn' = [i \in Recipients |-> IF i < t_i THEN "closed" ELSE t_conn[i]]
    /\ t_ev' = [i \in Recipients |->
                  IF i < t_i THEN t_ev[i] \o <<"CLOSE">> ELSE t_ev[i]]
    /\ t_fault < MaxFaults
    /\ t_fault' = t_fault + 1
    /\ TReturn("false")
    /\ UNCHANGED <<t_i, t_idle_clients, t_tmp, t_smtp, t_smtp_log, t_accepted,
                   t_now, t_deadline, t_pushed, t_seen, t_done, t_notifs,
                   t_msgs, t_has>>
    /\ UNCHANGED offScen

\* time.sleep(1); smtp = SMTPClient(...); smtp.connect()
TSleep ==
    /\ t_pc = "sleep"
    /\ t_pc' = "smtp"
    /\ t_smtp' = "open"
    /\ UNCHANGED <<t_i, t_conn, t_ev, t_idle_clients, t_tmp, t_smtp_log,
                   t_accepted, t_now, t_deadline, t_pushed, t_seen, t_done,
                   t_notifs, t_msgs, t_has, t_fault, t_ret>>
    /\ UNCHANGED offScen

\* One SMTP call of the submission succeeds.  When DATA is answered with 250
\* the server has accepted the message and holds it for the recipients; after
\* quit the notification loop starts.
TSmtpStep ==
    /\ t_pc = "smtp"
    /\ LET cmd == SmtpScript[Len(t_smtp_log) + 1]
       IN  /\ t_smtp_log' = Append(t_smtp_log, cmd)
           /\ IF cmd = "DATA"
              THEN /\ t_accepted' = TRUE
                   /\ t_now' = 0
                   /\ \E has \in Deliveries :
                        /\ t_has' = has
                        /\ ~All(has) => t_fault < MaxFaults
                        /\ t_fault' = IF All(has) THEN t_fault ELSE t_fault + 1
              ELSE UNCHANGED <<t_accepted, t_now, t_has, t_fault>>
           /\ IF cmd = "QUIT"
              THEN t_pc' = "collect" /\ t_i' = 1 /\ t_smtp' = "closed"
              ELSE UNCHANGED <<t_pc, t_i, t_smtp>>
    /\ UNCHANGED <<t_conn, t_ev, t_idle_clients, t_tmp, t_deadline, t_pushed,
                   t_seen, t_done, t_notifs, t_msgs, t_ret>>
    /\ UNCHANGED offScen

\* auth_plain, mail_from, rcpt_to or data returned False, or a call raised:
\* return False.  The idling connections and the SMTP socket are left as
\* they are.
TSmtpFail ==
    /\ t_pc = "smtp"
    /\ t_smtp_log' = Append(t_smtp_log, SmtpScript[Len(t_smtp_log) + 1])
    /\ t_fault < MaxFaults
    /\ t_fault' = t_fault + 1
    /\ TReturn("false")
    /\ UNCHANGED <<t_i, t_conn, t_ev, t_idle_clients, t_tmp, t_smtp,
                   t_accepted, t_now, t_deadline, t_pushed, t_seen, t_done,
                   t_notifs, t_msgs, t_has>>
    /\ UNCHANGED offScen

Pushed(i) == \E k \in 1..Len(t_pushed) : t_pushed[k] = i

\* The server pushes "* n EXISTS" to the idling connection of recipient i;
\* the line waits in the connection until the client reads it.
TPush(i) ==
    /\ t_accepted
    /\ t_pc \in {"smtp", "collect", "wait", "idle_done"}
    /\ ~Pushed(i)
    /\ t_conn[i] = "open"
    /\ Last(t_ev[i]) = "IDLE"
    /\ t_pushed' = Append(t_pushed, i)
    /\ UNCHANGED <<t_pc, t_i, t_conn, t_ev, t_idle_clients, t_tmp, t_smtp,
                   t_smtp_log, t_accepted, t_now, t_deadline, t_seen, t_done,
                   t_notifs, t_msgs, t_has, t_fault, t_ret>>
    /\ UNCHANGED offScen

\* One second passes while idle_wait blocks on a connection that holds no
\* line.  A server that leaves a connection without its EXISTS for more than
\* PushWithin seconds is at fault, once for all the time it is late.
Tick ==
    /\ t_pc = "wait"
    /\ ~Pushed(t_i)
    /\ t_now < t_deadline
    /\ t_now' = t_now + 1
    /\ t_now = PushWithin => t_fault < MaxFaults
    /\ t_fault' = IF t_now = PushWithin THEN t_fault + 1 ELSE t_fault
    /\ UNCHANGED <<t_pc, t_i, t_conn, t_ev, t_idle_clients, t_tmp, t_smtp,
                   t_smtp_log, t_accepted, t_deadline, t_pushed, t_seen,
                   t_done, t_notifs, t_msgs, t_has, t_ret>>
    /\ UNCHANGED offScen

\* The next turn of the notification loop, or the code after it.
NextCollect ==
    IF t_i < t_idle_clients
    THEN t_i' = t_i + 1 /\ t_pc' = "collect"
    ELSE t_i' = 1 /\ t_pc' = "verify"

\* client.idle_wait(timeout=10) is entered for connection t_i.
TWaitBegin ==
    /\ t_pc = "collect"
    /\ t_deadline' = WaitDeadline(t_now)
    /\ t_pc' = "wait"
    /\ UNCHANGED <<t_i, t_conn, t_ev, t_idle_clients, t_tmp, t_smtp,
                   t_smtp_log, t_accepted, t_now, t_pushed, t_seen, t_done,
                   t_notifs, t_msgs, t_has, t_fault, t_ret>>
    /\ UNCHANGED offScen

\* idle_wait read a line that holds EXISTS before its deadline: has_exists,
\* notifications_received.append(True).
TWaitExists ==
    /\ t_pc = "wait"
    /\ Pushed(t_i)
    /\ t_now < t_deadline
    /\ t_seen' = [t_seen EXCEPT ![t_i] = t_now]
    /\ t_notifs' = Append(t_notifs, TRUE)
    /\ t_pc' = "idle_done"
    /\ UNCHANGED <<t_i, t_conn, t_ev, t_idle_clients, t_tmp, t_smtp,
                   t_smtp_log, t_accepted, t_now, t_deadline, t_pushed,
                   t_done, t_msgs, t_has, t_fault, t_ret>>
    /\ UNCHANGED offScen

\* idle_wait reached its deadline (while time.time() < deadline) without a
\* line that holds EXISTS: notifications_received.append(False).
TWaitTimeout ==
    /\ t_pc = "wait"
    /\ t_now >= t_deadline
    /\ t_notifs' = Append(t_notifs, FALSE)
    /\ t_pc' = "idle_done"
    /\ UNCHANGED <<t_i, t_conn, t_ev, t_idle_clients, t_tmp, t_smtp,
                   t_smtp_log, t_accepted, t_now, t_deadline, t_pushed,
                   t_seen, t_done, t_msgs, t_has, t_fault, t_ret>>
    /\ UNCHANGED offScen

\* idle_wait raised (RuntimeError("Connection closed") from _read_line): the
\* except clause appends False and the loop goes on; idle_done is skipped.
TWaitRaise ==
    /\ t_pc = "wait"
    /\ t_notifs' = Append(t_notifs, FALSE)
    /\ t_fault < MaxFaults
    /\ t_fault' = t_fault + 1
    /\ NextCollect
    /\ UNCHANGED <<t_conn, t_ev, t_idle_clients, t_tmp, t_smtp, t_smtp_log,
                   t_accepted, t_now, t_deadline, t_pushed, t_seen, t_done,
                   t_msgs, t_has, t_ret>>
    /\ UNCHANGED offScen

\* client.idle_done(tag): DONE is written and the answer to the IDLE tag is
\* read.  The value returned is not looked at; an exception reaches the
\* except clause, which appends False.
TIdleDone ==
    /\ t_pc = "idle_done"
    /\ \E outcome \in {"OK", "NO", "raise"} :
        /\ t_done' = [t_done EXCEPT ![t_i] = outcome]
        /\ t_notifs' = IF outcome = "raise" THEN Append(t_notifs, FALSE)
                       ELSE t_notifs
        /\ outcome # "OK" => t_fault < MaxFaults
        /\ t_fault' = IF outcome = "OK" THEN t_fault ELSE t_fault + 1
    /\ t_ev' = Did(t_i, <<"DONE">>)
    /\ NextCollect
    /\ UNCHANGED <<t_conn, t_idle_clients, t_tmp, t_smtp, t_smtp_log,
                   t_accepted, t_now, t_deadline, t_pushed, t_seen, t_msgs,
                   t_has, t_ret>>
    /\ UNCHANGED offScen

\* The next turn of the verification loop, or the code after it.
NextVerify ==
    IF t_i < t_idle_clients
    THEN t_i' = t_i + 1 /\ t_pc' = "verify"
    ELSE t_i' = 0 /\ t_pc' = "cleanup"

\* One turn of "Fetch messages from each recipient": select; with exists > 0
\* fetch and append True, else append False; logout.  select or fetch may
\* raise (a status other than OK, or a dead connection); on a connection the
\* server still serves IDLE on, or that is dead, select can only raise.
TVerify ==
    /\ t_pc = "verify"
    /\ \E outcome \in {"answered", "select_raised", "fetch_raised"} :
      LET Fresh(o) == o # "answered" /\ Last(t_ev[t_i]) = "DONE"
      IN
        /\ outcome = "answered" => Last(t_ev[t_i]) = "DONE"
        /\ outcome = "fetch_raised" => t_has[t_i]
        /\ Fresh(outcome) => t_fault < MaxFaults
        /\ t_ev' = Did(t_i,
               CASE outcome = "select_raised" -> <<"SELECT">>
                 [] outcome = "fetch_raised" -> <<"SELECT", "FETCH">>
                 [] t_has[t_i] -> <<"SELECT", "FETCH", "LOGOUT">>
                 [] OTHER -> <<"SELECT", "LOGOUT">>)
        /\ t_msgs' = Append(t_msgs, outcome = "answered" /\ t_has[t_i])
        /\ t_conn' = [t_conn EXCEPT ![t_i] =
                         IF outcome = "answered" THEN "closed" ELSE @]
        /\ t_fault' = IF Fresh(outcome) THEN t_fault + 1 ELSE t_fault
    /\ NextVerify
    /\ UNCHANGED <<t_idle_clients, t_tmp, t_smtp, t_smtp_log, t_accepted,
                   t_now, t_deadline, t_pushed, t_seen, t_done, t_notifs,
                   t_has, t_ret>>
    /\ UNCHANGED offScen

\* "Cleanup": close() on every client whose socket logout has not closed.
TCleanup ==
    /\ t_pc = "cleanup"
    /\ t_ev' = [i \in Recipients |->
                  IF t_conn[i] = "open" THEN t_ev[i] \o <<"CLOSE">> ELSE t_ev[i]]
    /\ t_conn' = [i \in Recipients |-> "closed"]
    /\ t_pc' = "result"
    /\ UNCHANGED <<t_i, t_idle_clients, t_tmp, t_smtp, t_smtp_log, t_accepted,
                   t_now, t_deadline, t_pushed, t_seen, t_done, t_notifs,
                   t_msgs, t_has, t_fault, t_ret>>
    /\ UNCHANGED offScen

\* all_notified = all(notifications_received); all_received =
\* all(messages_received); the if / elif / else that returns.
TResult ==
    /\ t_pc = "result"
    /\ LET all_notified == All(t_notifs)
           all_received == All(t_msgs)
       IN  IF all_notified /\ all_received THEN TReturn("true")
           ELSE IF all_received THEN TReturn("true")
           ELSE TReturn("false")
    /\ UNCHANGED <<t_i, t_conn, t_ev, t_idle_clients, t_tmp, t_smtp,
                   t_smtp_log, t_accepted, t_now, t_deadline, t_pushed,
                   t_seen, t_done, t_notifs, t_msgs, t_has, t_fault>>
    /\ UNCHANGED offScen

\* test_idle_notification is entered: no client exists yet.
ScenInit ==
    /\ t_pc = "create"
    /\ t_i = 1
    /\ t_conn = [i \in Recipients |-> "none"]
    /\ t_ev = [i \in Recipients |-> <<>>]
    /\ t_idle_clients = 0
    /\ t_tmp = 0
    /\ t_smtp = "none"
    /\ t_smtp_log = <<>>
    /\ t_accepted = FALSE
    /\ t_now = 0
    /\ t_deadline = 0
    /\ t_pushed = <<>>
    /\ t_seen = [i \in Recipients |-> -1]
    /\ t_done = [i \in Recipients |-> "none"]
    /\ t_notifs = <<>>
    /\ t_msgs = <<>>
    /\ t_has = [i \in Recipients |-> FALSE]
    /\ t_fault = 0
    /\ t_ret = "none"

InitScenario == ConnOff /\ HelperOff /\ ScenInit /\ ReaderOff /\ SmtpOff
        /\ VerifyOff /\ PingOff /\ BuildOff /\ WaitOff /\ MainOff /\ DataOff /\ CountOff /\ StressOff /\ PortsOff

NextScenario ==
    \/ TCreateUser \/ TCreateFail
    \/ TSetupIdle \/ TSetupLoginFalse \/ TSetupRaise
    \/ TSleep \/ TSmtpStep \/ TSmtpFail
    \/ (\E i \in Recipients : TPush(i)) \/ Tick
    \/ TWaitBegin \/ TWaitExists \/ TWaitTimeout \/ TWaitRaise \/ TIdleDone
    \/ TVerify \/ TCleanup \/ TResult

SpecScenario == InitScenario /\ [][NextScenario]_vars

\* ------------------------------------------- the line reader and the clock
\* IMAPClient._read_line, _read_line_timeout and idle_wait over a connection
\* on which the peer sends any stream of tokens, token by token, at any time.
\* Time is counted in ticks.  A step of the client takes no time; the clock
\* advances only while the client is blocked in recv with nothing to receive.

\* A byte that is not valid UTF-8, and what decode(errors='replace') gives
\* for it.
BadByte == W("0xFF")
Replacement == W("U+FFFD")
\* line.decode('utf-8', errors='replace')
Decode(toks) ==
    [i \in 1..Len(toks) |-> IF toks[i] = BadByte THEN Replacement ELSE toks[i]]

\* The tokens a stream is made of: a word, the word EXISTS, a byte that is
\* not valid UTF-8, the terminator.
StreamTokens == {W("x"), EXISTS, BadByte, CRLF}
RECURSIVE Streams(_)
Streams(n) ==
    IF n = 0 THEN {<<>>}
    ELSE LET shorter == Streams(n - 1)
         IN  shorter \cup {Append(st, tok) : st \in {x \in shorter : Len(x) = n - 1},
                                             tok \in StreamTokens}

\* min(remaining, 1.0), in ticks.
Slice == SliceSeconds * TicksPerSecond
Min(a, b) == IF a < b THEN a ELSE b

\* The tokens that have arrived and recv has not returned.
Available == r_arrived - r_taken
\* The client is inside recv with no terminator buffered.
InRecv == r_pc \in {"read", "slice"} /\ ~HasCRLF(r_buf)

\* The peer's next token reaches the socket.
RSend ==
    /\ r_pc # "off"
    /\ ~r_closed
    /\ r_arrived < Len(r_stream)
    /\ r_arrived' = r_arrived + 1
    /\ UNCHANGED <<r_stream, r_taken, r_closed, r_buf, r_lines, r_pc, r_now,
                   r_deadline, r_slice, r_recv_end, r_notifs, r_ret, r_cut>>
    /\ UNCHANGED offReader

\* The peer closes the connection; what it had not sent is never sent.
RClose ==
    /\ r_pc # "off"
    /\ ~r_closed
    /\ r_closed' = TRUE
    /\ UNCHANGED <<r_stream, r_arrived, r_taken, r_buf, r_lines, r_pc, r_now,
                   r_deadline, r_slice, r_recv_end, r_notifs, r_ret, r_cut>>
    /\ UNCHANGED offReader

\* _read_line() is called with the socket in its blocking mode (connect,
\* _read_response, idle_start).
RReadLine ==
    /\ r_pc = "idle"
    /\ r_pc' = "read"
    /\ UNCHANGED <<r_stream, r_arrived, r_taken, r_closed, r_buf, r_lines,
                   r_now, r_deadline, r_slice, r_recv_end, r_notifs, r_ret,
                   r_cut>>
    /\ UNCHANGED offReader

\* idle_wait(timeout) is entered: notifications = [], deadline = now + timeout.
RIdleWait ==
    /\ r_pc = "idle"
    /\ \E timeout \in 1..MaxWait : r_deadline' = IdleDeadline(r_now, timeout)
    /\ r_notifs' = <<>>
    /\ r_pc' = "loop"
    /\ UNCHANGED <<r_stream, r_arrived, r_taken, r_closed, r_buf, r_lines,
                   r_now, r_slice, r_recv_end, r_ret, r_cut>>
    /\ UNCHANGED offReader

\* idle_wait returns or raises: its locals, and the socket timeout it had set,
\* are gone.
WaitEnds ==
    /\ r_now' = 0
    /\ r_deadline' = 0
    /\ r_slice' = 0
    /\ r_recv_end' = 0
    /\ r_notifs' = <<>>

\* idle_wait: the test of its while loop.  Before the deadline
\* _read_line_timeout(min(remaining, 1.0)) is entered; at or after it the
\* notifications are returned.
RLoop ==
    /\ r_pc = "loop"
    /\ IF r_now < r_deadline
       THEN /\ r_slice' = Min(r_deadline - r_now, Slice)
            /\ r_recv_end' = r_now + Min(r_deadline - r_now, Slice)
            /\ r_pc' = "slice"
            /\ UNCHANGED <<r_ret, r_now, r_deadline, r_notifs>>
       ELSE /\ r_ret' = Gave("list", r_notifs)
            /\ r_pc' = "idle"
            /\ WaitEnds
    /\ UNCHANGED <<r_stream, r_arrived, r_taken, r_closed, r_buf, r_lines,
                   r_cut>>
    /\ UNCHANGED offReader

\* _read_line: recv returns some of what has arrived and it is appended to
\* self.buffer.  When no terminator has come the loop calls recv again, and
\* that recv has the socket's whole timeout before it.  A token that arrives at
\* the instant the timeout expires loses to the timeout.
RRecv ==
    /\ InRecv
    /\ Available > 0
    /\ r_pc = "slice" => r_now < r_recv_end
    /\ \E k \in 1..Available :
         /\ r_buf' = r_buf \o SubSeq(r_stream, r_taken + 1, r_taken + k)
         /\ r_taken' = r_taken + k
    /\ r_recv_end' = NextRecvEnd(r_now, r_slice)
    /\ UNCHANGED <<r_stream, r_arrived, r_closed, r_lines, r_pc, r_now,
                   r_deadline, r_slice, r_notifs, r_ret, r_cut>>
    /\ UNCHANGED offReader

\* _read_line: a terminator is buffered; the line before it is returned and
\* the rest stays in self.buffer; the line is returned decoded.  In idle_wait
\* the line is appended to the
\* notifications, and a line that holds EXISTS ends the wait.
RLine ==
    /\ r_pc \in {"read", "slice"}
    /\ HasCRLF(r_buf)
    /\ LET line == Decode(LineOf(r_buf))
       IN  /\ r_buf' = RestOf(r_buf)
           /\ r_lines' = Append(r_lines, line)
           /\ IF r_pc = "read"
              THEN /\ r_ret' = Gave("line", line)
                   /\ r_pc' = "idle"
                   /\ UNCHANGED <<r_now, r_deadline, r_slice, r_recv_end,
                                  r_notifs>>
              ELSE IF HasExists(line)
                   THEN /\ r_ret' = Gave("list", Append(r_notifs, line))
                        /\ r_pc' = "idle"
                        /\ WaitEnds
                   ELSE /\ r_notifs' = Append(r_notifs, line)
                        /\ r_pc' = "loop"
                        /\ UNCHANGED <<r_ret, r_now, r_deadline, r_slice,
                                       r_recv_end>>
    /\ UNCHANGED <<r_stream, r_arrived, r_taken, r_closed, r_cut>>
    /\ UNCHANGED offReader

\* _read_line_timeout: the recv in progress got nothing within the socket
\* timeout: socket.timeout, which idle_wait answers with continue.  What
\* earlier recv calls brought stays in self.buffer.
RTimeout ==
    /\ r_pc = "slice"
    /\ InRecv
    /\ r_now >= r_recv_end
    /\ r_pc' = "loop"
    /\ r_buf' = KeptAtTimeout(r_buf)
    /\ r_cut' = (r_cut \/ r_buf # <<>>)
    /\ UNCHANGED <<r_stream, r_arrived, r_taken, r_closed, r_lines, r_now,
                   r_deadline, r_slice, r_recv_end, r_notifs, r_ret>>
    /\ UNCHANGED offReader

\* _read_line: recv returned b"": RuntimeError("Connection closed"), which
\* idle_wait does not catch.
RClosed ==
    /\ InRecv
    /\ Available = 0
    /\ r_closed
    /\ r_ret' = Gave("raise", <<>>)
    /\ r_pc' = "idle"
    /\ IF r_pc = "slice" THEN WaitEnds
       ELSE UNCHANGED <<r_now, r_deadline, r_slice, r_recv_end, r_notifs>>
    /\ UNCHANGED <<r_stream, r_arrived, r_taken, r_closed, r_buf, r_lines,
                   r_cut>>
    /\ UNCHANGED offReader

\* Time passes while the client is blocked in a recv that has not timed out.
RTick ==
    /\ r_pc = "slice"
    /\ InRecv
    /\ Available = 0
    /\ ~r_closed
    /\ r_now < r_recv_end
    /\ r_now' = r_now + 1
    /\ UNCHANGED <<r_stream, r_arrived, r_taken, r_closed, r_buf, r_lines,
                   r_pc, r_deadline, r_slice, r_recv_end, r_notifs, r_ret,
                   r_cut>>
    /\ UNCHANGED offReader

\* A connected client with an empty buffer, and any stream to come.
ReaderInit ==
    /\ r_stream \in Streams(MaxStream)
    /\ r_arrived = 0
    /\ r_taken = 0
    /\ r_closed = FALSE
    /\ r_buf = <<>>
    /\ r_lines = <<>>
    /\ r_pc = "idle"
    /\ r_now = 0
    /\ r_deadline = 0
    /\ r_slice = 0
    /\ r_recv_end = 0
    /\ r_notifs = <<>>
    /\ r_ret = Gave("none", <<>>)
    /\ r_cut = FALSE

InitReader == ConnOff /\ HelperOff /\ ScenOff /\ ReaderInit /\ SmtpOff
        /\ VerifyOff /\ PingOff /\ BuildOff /\ WaitOff /\ MainOff /\ DataOff /\ CountOff /\ StressOff /\ PortsOff

NextReader == RSend \/ RClose \/ RReadLine \/ RIdleWait \/ RLoop \/ RRecv
                 \/ RLine \/ RTimeout \/ RClosed \/ RTick

SpecReader == InitReader /\ [][NextReader]_vars

\* ------------------------------------------------------- SMTP submission
\* One submission session on a fresh connection, by the SMTPClient class as
\* test_idle_notification drives it ("client14") or by smtp_cmd and
\* smtp_recv_response of test_13 and test_12 ("cmd13").  A reply line is the
\* code, the separator ("-" on a continuation line, a space on the last line),
\* the text, and the terminator.  The server answers each command with one
\* reply and sends nothing before it has the command.

SP == W(" ")
Dash == W("-")
Refused == W("500")

ReplyLine(code, sep, text) == <<code, sep>> \o text \o <<CRLF>>
\* The replies the server may send with a code: continuation lines, then the
\* last line, whose text may be empty.
RECURSIVE Continuations(_, _)
Continuations(code, n) ==
    IF n = 0 THEN <<>>
    ELSE ReplyLine(code, Dash, <<W("ok")>>) \o Continuations(code, n - 1)
SmtpReplies(code) ==
    {Continuations(code, n) \o ReplyLine(code, SP, text) :
        n \in 0..MaxCont, text \in {<<>>, <<W("ok")>>}}

\* The steps of the session: the command, the recipient it names (0: none)
\* and the code that is expected.
SmtpStep(cmd, to, expect) == [cmd |-> cmd, to |-> to, expect |-> expect]
\* The session with the message written a second time in place of QUIT.
SmtpStepsTwice ==
    <<SmtpStep("CONNECT", 0, W("220")), SmtpStep("EHLO", 0, W("250")),
      SmtpStep("AUTH", 0, W("235")), SmtpStep("MAIL", 0, W("250"))>>
    \o [i \in Recipients |-> SmtpStep("RCPT", i, W("250"))]
    \o <<SmtpStep("DATA", 0, W("354")), SmtpStep("BODY", 0, W("250")),
         SmtpStep("BODY", 0, W("250"))>>
\* connect, EHLO, AUTH PLAIN, MAIL FROM, RCPT TO for each recipient, DATA, the
\* message, QUIT.
SmtpSteps ==
    <<SmtpStep("CONNECT", 0, W("220")), SmtpStep("EHLO", 0, W("250")),
      SmtpStep("AUTH", 0, W("235")), SmtpStep("MAIL", 0, W("250"))>>
    \o [i \in Recipients |-> SmtpStep("RCPT", i, W("250"))]
    \o <<SmtpStep("DATA", 0, W("354")), SmtpStep("BODY", 0, W("250")),
         SmtpStep("QUIT", 0, W("221"))>>

\* What a step writes: its command line; for the message, its bytes and then
\* the line that holds a single ".".
Wrote(cmd, to) == <<cmd, to>>
Written(step) ==
    CASE step.cmd = "CONNECT" -> <<>>
      [] step.cmd = "BODY" -> <<Wrote("BODY", 0), Wrote(".", 0)>>
      [] OTHER -> <<Wrote(step.cmd, step.to)>>

\* str.strip() of a received line: the terminator and the blanks at its ends go.
RECURSIVE Strip(_)
Strip(line) ==
    IF line = <<>> THEN <<>>
    ELSE IF line[Len(line)] \in {CRLF, SP} THEN Strip(SubSeq(line, 1, Len(line) - 1))
    ELSE IF line[1] = SP THEN Strip(Tail(line))
    ELSE line

\* SMTPClient._read_response: len(line) >= 4 and line[3] == ' '
IsLast(line) == Len(line) >= 2 /\ line[2] = SP

\* smtp_recv_response: some piece of response.split('\r\n'), the unfinished
\* last piece included, has a space as its 4th character.
AnyLast(resp) ==
    \E i \in 2..Len(resp) :
        /\ resp[i] = SP
        /\ resp[i - 1] # CRLF
        /\ (i = 2 \/ resp[i - 2] = CRLF)

\* smtp_cmd: any(line.startswith(str(expected_code)) for line in ... if line)
AnyStartsWith(resp, code) ==
    \E i \in 1..Len(resp) : resp[i] = code /\ (i = 1 \/ resp[i - 1] = CRLF)

\* SMTPClient: response.startswith(code), response = "\n".join(lines)
StartsWith(lines, code) ==
    lines # <<>> /\ lines[1] # <<>> /\ lines[1][1] = code

\* data() goes on to the message whatever the reply to DATA was.
GoAheadAny(lines) == TRUE
\* SMTPClient.data: the message is written only after a reply that starts
\* with 354.
GoAhead(lines) == StartsWith(lines, W("354"))

\* What a finished reply read gave: the number of the step, "reply" or
\* "raise", and the tokens the read took from the connection.
ReadGave(n, kind, raw) == [n |-> n, kind |-> kind, raw |-> raw]

\* Whether the session goes on after the reply of a step.
\* client14 (test_14 lines 511-543): connect raises unless the greeting starts
\* with 220; the result of ehlo is not looked at; auth_plain, mail_from,
\* rcpt_to and data return a bool that is tested; quit ignores its reply.
\* cmd13: smtp_cmd raises unless a line of the response starts with the code.
GoesOn(kind, step, lines, resp) ==
    IF kind = "client14"
    THEN CASE step.cmd = "EHLO" -> TRUE
           [] step.cmd = "QUIT" -> TRUE
           [] step.cmd = "DATA" -> GoAhead(lines)
           [] OTHER -> StartsWith(lines, step.expect)
    ELSE AnyStartsWith(resp, step.expect)

\* How the operation of step n ended: it returned val ("true", "false",
\* "text" for the response, "none") or it raised ("error": RuntimeError or
\* Exception with the response in its text; "timeout": socket.timeout).
Ended(n, how, val) == [n |-> n, how |-> how, val |-> val]

Bool(b) == IF b THEN "true" ELSE "false"

\* The operation of a step ends on the reply it has read.
\* SMTPClient: connect raises RuntimeError unless the greeting starts with
\* 220; ehlo returns the response; auth_plain, mail_from and rcpt_to return
\* whether it starts with their code; data returns False unless the reply to
\* DATA starts with 354, and then whether the reply to the message starts
\* with 250; quit returns nothing.
\* smtp_cmd: raises Exception unless a line starts with the code, and
\* otherwise returns the response.
OpEnds(kind, n, step, lines, resp) ==
    IF kind = "client14"
    THEN CASE step.cmd = "CONNECT" ->
                IF StartsWith(lines, W("220")) THEN Ended(n, "return", "text")
                ELSE Ended(n, "raise", "error")
           [] step.cmd = "EHLO" -> Ended(n, "return", "text")
           [] step.cmd = "QUIT" -> Ended(n, "return", "none")
           [] step.cmd = "DATA" ->
                IF GoAhead(lines) THEN Ended(n, "none", "none")
                ELSE Ended(n, "return", "false")
           [] OTHER -> Ended(n, "return", Bool(StartsWith(lines, step.expect)))
    ELSE IF AnyStartsWith(resp, step.expect) THEN Ended(n, "return", "text")
         ELSE Ended(n, "raise", "error")

\* Whether the socket is closed once the reply to QUIT has been read:
\* SMTPClient.quit closes in its finally clause; test_13 calls
\* smtp_socket.close() after smtp_cmd("QUIT", 221) and not when it raised.
Closes(kind, on) == kind = "client14" \/ on

\* The reply read of the step in progress returns: the caller tests it and
\* goes to the next step, or the session ends.
MReturn(lines, resp, raw) ==
    LET steps == SmtpSteps
        step == steps[m_step]
        on == GoesOn(m_kind, step, lines, resp)
    IN  /\ m_ret' = ReadGave(m_step, "reply", raw)
        /\ m_pc' = IF ~on THEN "failed"
                   ELSE IF m_step = Len(steps) THEN "done" ELSE "send"
        /\ m_step' = IF on /\ m_step < Len(steps) THEN m_step + 1 ELSE m_step
        /\ m_dataret' =
             IF m_kind = "client14" /\ step.cmd = "DATA" /\ ~on THEN "false"
             ELSE IF m_kind = "client14" /\ step.cmd = "BODY"
                  THEN (IF on THEN "true" ELSE "false")
             ELSE m_dataret
        /\ m_out' = OpEnds(m_kind, m_step, step, lines, resp)
        /\ m_sock' = IF step.cmd = "QUIT" /\ Closes(m_kind, on) THEN "none"
                    ELSE m_sock

\* The server answers the command it has, with the code the step expects or
\* with a refusal; after its answer to QUIT it closes.
MSrvReply ==
    /\ m_kind # "off"
    /\ m_pending
    /\ ~m_eof
    /\ LET n == Len(m_codes) + 1
           step == SmtpSteps[n]
       IN  /\ \E code \in {step.expect, Refused} :
                /\ \E reply \in SmtpReplies(code) :
                     /\ m_net' = m_net \o reply
                     /\ m_sent' = reply
                /\ m_codes' = Append(m_codes, code)
           /\ m_eof' = (step.cmd = "QUIT")
    /\ m_pending' = FALSE
    /\ UNCHANGED <<m_kind, m_step, m_pc, m_wire, m_data, m_lines, m_raw,
                   m_empty, m_ret, m_dataret, m_out, m_sock>>
    /\ UNCHANGED offSmtp

\* The server closes the connection.
MSrvClose ==
    /\ m_kind # "off"
    /\ ~m_eof
    /\ m_eof' = TRUE
    /\ m_pending' = FALSE
    /\ UNCHANGED <<m_kind, m_step, m_pc, m_wire, m_net, m_data, m_lines,
                   m_raw, m_sent, m_codes, m_empty, m_ret, m_dataret, m_out, m_sock>>
    /\ UNCHANGED offSmtp

\* _send_command / smtp_cmd: the command of the step is written and the read
\* of its reply begins; for the message, its bytes and the "." line.
MSend ==
    /\ m_pc = "send"
    /\ m_wire' = m_wire \o Written(SmtpSteps[m_step])
    /\ m_pending' = ~m_eof
    /\ m_pc' = "recv"
    /\ m_data' = <<>>
    /\ m_lines' = <<>>
    /\ m_raw' = <<>>
    /\ m_empty' = 0
    /\ UNCHANGED <<m_kind, m_step, m_net, m_sent, m_codes, m_eof, m_ret,
                   m_dataret, m_out, m_sock>>
    /\ UNCHANGED offSmtp

\* SMTPClient._read_response: recv(1) brings the next byte of the line; at the
\* terminator the stripped line is appended to lines, and a line whose 4th
\* character is a space ends the read.
M14Recv ==
    /\ m_kind = "client14"
    /\ m_pc = "recv"
    /\ m_net # <<>>
    /\ m_net' = Tail(m_net)
    /\ m_raw' = Append(m_raw, Head(m_net))
    /\ m_empty' = 0
    /\ IF Head(m_net) = CRLF
       THEN LET line == Strip(Append(m_data, CRLF))
                lines == Append(m_lines, line)
            IN  /\ m_data' = <<>>
                /\ m_lines' = lines
                /\ IF IsLast(line)
                   THEN MReturn(lines, <<>>, Append(m_raw, CRLF))
                   ELSE UNCHANGED <<m_pc, m_step, m_ret, m_dataret, m_out, m_sock>>
       ELSE /\ m_data' = Append(m_data, Head(m_net))
            /\ UNCHANGED <<m_lines, m_pc, m_step, m_ret, m_dataret, m_out, m_sock>>
    /\ UNCHANGED <<m_kind, m_wire, m_sent, m_codes, m_pending, m_eof>>
    /\ UNCHANGED offSmtp

\* SMTPClient._read_response: recv(1) returned b"".  The inner loop is left,
\* what was read of the line is stripped and appended to lines, and unless it
\* has a space as its 4th character the outer loop goes round again.
M14Empty ==
    /\ m_kind = "client14"
    /\ m_pc = "recv"
    /\ m_net = <<>>
    /\ m_eof
    /\ m_empty < MaxEmpty
    /\ m_empty' = m_empty + 1
    /\ LET line == Strip(m_data)
           lines == Append(m_lines, line)
       IN  /\ m_data' = <<>>
           /\ m_lines' = lines
           /\ IF IsLast(line)
              THEN MReturn(lines, <<>>, m_raw)
              ELSE UNCHANGED <<m_pc, m_step, m_ret, m_dataret, m_out, m_sock>>
    /\ UNCHANGED <<m_kind, m_wire, m_net, m_raw, m_sent, m_codes, m_pending,
                   m_eof>>
    /\ UNCHANGED offSmtp

\* smtp_recv_response: recv(4096) brings a chunk; the read ends as soon as a
\* piece of the response has a space as its 4th character.
M13Recv ==
    /\ m_kind = "cmd13"
    /\ m_pc = "recv"
    /\ m_net # <<>>
    /\ \E k \in 1..Len(m_net) :
         LET resp == m_data \o SubSeq(m_net, 1, k)
         IN  /\ m_net' = Drop(m_net, k)
             /\ m_data' = resp
             /\ m_raw' = resp
             /\ IF AnyLast(resp)
                THEN MReturn(<<>>, resp, resp)
                ELSE UNCHANGED <<m_pc, m_step, m_ret, m_dataret, m_out, m_sock>>
    /\ m_empty' = 0
    /\ UNCHANGED <<m_kind, m_wire, m_lines, m_sent, m_codes, m_pending, m_eof>>
    /\ UNCHANGED offSmtp

\* smtp_recv_response: recv returned b"": the loop is left and what was
\* received is returned.
M13Empty ==
    /\ m_kind = "cmd13"
    /\ m_pc = "recv"
    /\ m_net = <<>>
    /\ m_eof
    /\ m_empty' = m_empty + 1
    /\ MReturn(<<>>, m_data, m_data)
    /\ UNCHANGED <<m_kind, m_wire, m_net, m_data, m_lines, m_raw, m_sent,
                   m_codes, m_pending, m_eof>>
    /\ UNCHANGED offSmtp

\* SMTPClient.quit: sendall raises on the connection the server has closed;
\* the except clause swallows the error and the finally clause closes.
MQuitWriteFails ==
    /\ m_kind = "client14"
    /\ m_pc = "send"
    /\ SmtpSteps[m_step].cmd = "QUIT"
    /\ m_eof
    /\ m_pc' = "done"
    /\ m_out' = Ended(m_step, "return", "none")
    /\ m_sock' = "none"
    /\ UNCHANGED <<m_kind, m_step, m_wire, m_net, m_data, m_lines, m_raw,
                   m_sent, m_codes, m_pending, m_eof, m_empty, m_ret,
                   m_dataret>>
    /\ UNCHANGED offSmtp

\* recv got nothing within the socket timeout: socket.timeout ends the
\* session; quit of SMTPClient swallows it and closes.
MTimeout ==
    /\ m_pc = "recv"
    /\ m_net = <<>>
    /\ ~m_eof
    /\ ~m_pending
    /\ m_ret' = ReadGave(m_step, "raise", m_raw)
    /\ m_pc' = IF m_kind = "client14" /\ SmtpSteps[m_step].cmd = "QUIT"
               THEN "done" ELSE "failed"
    /\ m_dataret' = m_dataret
    /\ m_out' = IF m_kind = "client14" /\ SmtpSteps[m_step].cmd = "QUIT"
                THEN Ended(m_step, "return", "none")
                ELSE Ended(m_step, "raise", "timeout")
    /\ m_sock' = IF m_kind = "client14" /\ SmtpSteps[m_step].cmd = "QUIT"
                 THEN "none" ELSE m_sock
    /\ UNCHANGED <<m_kind, m_step, m_wire, m_net, m_data, m_lines, m_raw,
                   m_sent, m_codes, m_pending, m_eof, m_empty>>
    /\ UNCHANGED offSmtp

\* The connection is made; the greeting is awaited.
SmtpInit ==
    /\ m_kind \in {"client14", "cmd13"}
    /\ m_step = 1
    /\ m_pc = "recv"
    /\ m_wire = <<>>
    /\ m_net = <<>>
    /\ m_data = <<>>
    /\ m_lines = <<>>
    /\ m_raw = <<>>
    /\ m_sent = <<>>
    /\ m_codes = <<>>
    /\ m_pending = TRUE
    /\ m_eof = FALSE
    /\ m_empty = 0
    /\ m_ret = ReadGave(0, "none", <<>>)
    /\ m_dataret = "none"
    /\ m_out = Ended(0, "none", "none")
    /\ m_sock = "open"

InitSmtp == ConnOff /\ HelperOff /\ ScenOff /\ ReaderOff /\ SmtpInit
        /\ VerifyOff /\ PingOff /\ BuildOff /\ WaitOff /\ MainOff /\ DataOff /\ CountOff /\ StressOff /\ PortsOff

NextSmtp == MSrvReply \/ MSrvClose \/ MSend \/ M14Recv \/ M14Empty
               \/ M13Recv \/ M13Empty \/ MTimeout \/ MQuitWriteFails

SpecSmtp == InitSmtp /\ [][NextSmtp]_vars

\* --------------------------------------- test_13: the mailbox verification
\* TEST 5 of test_multirecipient: for each recipient in turn a fresh IMAP
\* session logs in, selects INBOX and reads the message count out of the
\* SELECT response; the recipient is successful when has_message holds.  The
\* server's answers are inputs: LOGIN or SELECT may be refused, and SELECT
\* reports any number of messages up to MaxMsgs.

\* The response to SELECT INBOX for a mailbox that holds n messages.
SelectResponse(n, status) ==
    ExistsLine(n) \o RecentLine(0) \o TaggedLine(HelperTag(2), status)

\* The steps of one check at which the socket can fail (socket.error or
\* socket.timeout, both caught by "except Exception").
SocketFaults == {"none", "connect", "fetch", "logout"}

\* The text of the exception that ends one recipient's check, "" when the
\* check runs to its end: the steps in the order of the code.
CheckError(broke, login, resp) ==
    CASE broke = "connect" -> "connect"
      [] login # OK -> "Login failed"
      [] ~OKIn(resp) -> "SELECT INBOX failed"
      [] ~HasMessage(resp) -> "No messages in INBOX"
      [] broke = "fetch" -> "fetch"
      [] broke = "logout" -> "logout"
      [] OTHER -> ""

\* The test of the results: all 4 recipients are in successful_recipients.
AllReceivedAny(successful) == Len(successful) > 0
AllReceived(successful) == Len(successful) = 4

\* One recipient's mailbox is checked: it joins successful_recipients, or the
\* exception puts it, with its text, into failed_recipients.
VCheck ==
    /\ v_pc = "check"
    /\ v_i <= NumRecipients
    /\ \E broke \in SocketFaults, login \in {OK, NO}, select \in {OK, NO},
          n \in 0..MaxMsgs :
         LET resp == SelectResponse(n, select)
             err == CheckError(broke, login, resp)
         IN  /\ v_counts' = Append(v_counts,
                                   IF err \in {"connect", "Login failed",
                                               "SELECT INBOX failed"}
                                   THEN -1 ELSE n)
             /\ v_succ' = IF err = "" THEN Append(v_succ, v_i) ELSE v_succ
             /\ v_failed' = IF err = "" THEN v_failed
                            ELSE Append(v_failed, <<v_i, err>>)
    /\ v_i' = v_i + 1
    /\ UNCHANGED <<v_pc, v_ret>>
    /\ UNCHANGED offVerify

\* The results: success exactly when all recipients are in
\* successful_recipients.
VResult ==
    /\ v_pc = "check"
    /\ v_i = NumRecipients + 1
    /\ v_ret' = (IF AllReceived(v_succ) THEN "true" ELSE "false")
    /\ v_pc' = "done"
    /\ UNCHANGED <<v_i, v_counts, v_succ, v_failed>>
    /\ UNCHANGED offVerify

VerifyInit ==
    /\ v_pc = "check"
    /\ v_i = 1
    /\ v_counts = <<>>
    /\ v_succ = <<>>
    /\ v_failed = <<>>
    /\ v_ret = "none"

InitVerify == ConnOff /\ HelperOff /\ ScenOff /\ ReaderOff /\ SmtpOff
              /\ VerifyInit /\ PingOff /\ BuildOff /\ WaitOff /\ MainOff /\ DataOff /\ CountOff /\ StressOff /\ PortsOff

NextVerify13 == VCheck \/ VResult

SpecVerify == InitVerify /\ [][NextVerify13]_vars

\* ------------------------------------------------- test_15: the event readers
\* perform_cmping waits, receiver after receiver, for the event that shows the
\* receiver has joined the group, each time blocked in the receiver's
\* wait_for_event; then it makes the Pinger, and Pinger.receive starts one
\* listener thread per receiver, which loops on wait_for_event and puts what
\* it gets into a queue that the main thread reads.
PingReceivers == 1..NumPingReceivers

\* Listeners started while the main thread still waits for the joins.
ListenersStartEarly(main) == main \in {"join", "wait", "start"}
\* Pinger.receive starts the listeners; perform_cmping calls it after its
\* join loop.
ListenersStart(main) == main = "start"

\* What the main thread turns to after the join loop of receiver idx.
AfterJoin(idx) == IF idx < NumPingReceivers THEN "join" ELSE "pinger"

\* An event appears in the event stream of receiver i's account.
PEvent(i) ==
    /\ p_main # "off"
    /\ p_made < MaxEvents
    /\ p_made' = p_made + 1
    /\ p_ev' = [p_ev EXCEPT ![i] = @ + 1]
    /\ UNCHANGED <<p_main, p_idx, p_started, p_thr, p_q, p_pending, p_reads>>
    /\ UNCHANGED offPing

\* perform_cmping, join loop: the 30 s are not over; wait_for_event is called.
PJoinWait ==
    /\ p_main = "join"
    /\ p_main' = "wait"
    /\ UNCHANGED <<p_idx, p_started, p_thr, p_ev, p_q, p_pending, p_made,
                   p_reads>>
    /\ UNCHANGED offPing

\* perform_cmping, join loop: wait_for_event returns an event; the message
\* that promotes the group ends the loop for this receiver, any other event
\* sends it round again.
PJoinEvent ==
    /\ p_main = "wait"
    /\ p_ev[p_idx] > 0
    /\ p_ev' = [p_ev EXCEPT ![p_idx] = @ - 1]
    /\ p_reads' = [p_reads EXCEPT ![p_idx] = @ \cup {"main"}]
    /\ \E joined \in BOOLEAN :
         IF joined
         THEN /\ p_main' = AfterJoin(p_idx)
              /\ p_idx' = IF p_idx < NumPingReceivers THEN p_idx + 1 ELSE p_idx
         ELSE /\ p_main' = "join"
              /\ p_idx' = p_idx
    /\ UNCHANGED <<p_started, p_thr, p_q, p_pending, p_made>>
    /\ UNCHANGED offPing

\* perform_cmping, join loop: the 30 s are over at the loop test; the warning
\* is printed and the next receiver is waited for.
PJoinTimeout ==
    /\ p_main = "join"
    /\ p_main' = AfterJoin(p_idx)
    /\ p_idx' = IF p_idx < NumPingReceivers THEN p_idx + 1 ELSE p_idx
    /\ UNCHANGED <<p_started, p_thr, p_ev, p_q, p_pending, p_made, p_reads>>
    /\ UNCHANGED offPing

\* The Pinger is made and receive() is entered: num_pending is set, the queue
\* is created.
PPinger ==
    /\ p_main = "pinger"
    /\ p_main' = "start"
    /\ p_pending' = PingCount * NumPingReceivers
    /\ UNCHANGED <<p_idx, p_started, p_thr, p_ev, p_q, p_made, p_reads>>
    /\ UNCHANGED offPing

\* Pinger.receive: the next listener thread is started and blocks in its
\* receiver's wait_for_event; after the last one the main thread turns to
\* the queue.
PStart ==
    /\ ListenersStart(p_main)
    /\ p_started < NumPingReceivers
    /\ p_started' = p_started + 1
    /\ p_thr' = [p_thr EXCEPT ![p_started + 1] = "wait"]
    /\ p_main' = IF p_main = "start" /\ p_started + 1 = NumPingReceivers
                 THEN "queue" ELSE p_main
    /\ UNCHANGED <<p_idx, p_ev, p_q, p_pending, p_made, p_reads>>
    /\ UNCHANGED offPing

\* receiver_thread: wait_for_event returns an event, which is put into the
\* queue; the thread calls wait_for_event again.
PThreadEvent(i) ==
    /\ p_thr[i] = "wait"
    /\ p_ev[i] > 0
    /\ p_ev' = [p_ev EXCEPT ![i] = @ - 1]
    /\ p_reads' = [p_reads EXCEPT ![i] = @ \cup {"listener"}]
    /\ \E ping \in BOOLEAN : p_q' = Append(p_q, <<i, ping>>)
    /\ UNCHANGED <<p_main, p_idx, p_started, p_thr, p_pending, p_made>>
    /\ UNCHANGED offPing

\* receiver_thread: wait_for_event raises; None is put and the thread ends.
PThreadFail(i) ==
    /\ p_thr[i] = "wait"
    /\ p_thr' = [p_thr EXCEPT ![i] = "dead"]
    /\ p_q' = Append(p_q, <<i, FALSE>>)
    /\ UNCHANGED <<p_main, p_idx, p_started, p_ev, p_pending, p_made, p_reads>>
    /\ UNCHANGED offPing

\* Pinger.receive: the main thread takes the next entry of the queue; a ping
\* counts down num_pending, and at 0 the generator ends.
PQueueGet ==
    /\ p_main = "queue"
    /\ p_q # <<>>
    /\ p_q' = Tail(p_q)
    /\ p_pending' = IF Head(p_q)[2] THEN p_pending - 1 ELSE p_pending
    /\ p_main' = IF Head(p_q)[2] /\ p_pending = 1 THEN "done" ELSE "queue"
    /\ UNCHANGED <<p_idx, p_started, p_thr, p_ev, p_made, p_reads>>
    /\ UNCHANGED offPing

\* The send thread's SIGINT: KeyboardInterrupt ends the main thread's loop.
PInterrupt ==
    /\ p_main = "queue"
    /\ p_main' = "done"
    /\ UNCHANGED <<p_idx, p_started, p_thr, p_ev, p_q, p_pending, p_made,
                   p_reads>>
    /\ UNCHANGED offPing

PingInit ==
    /\ p_main = "join"
    /\ p_idx = 1
    /\ p_started = 0
    /\ p_thr = [i \in PingReceivers |-> "none"]
    /\ p_ev = [i \in PingReceivers |-> 0]
    /\ p_q = <<>>
    /\ p_pending = 0
    /\ p_made = 0
    /\ p_reads = [i \in PingReceivers |-> {}]

InitPing == ConnOff /\ HelperOff /\ ScenOff /\ ReaderOff /\ SmtpOff
            /\ VerifyOff /\ PingInit /\ BuildOff /\ WaitOff /\ MainOff /\ DataOff /\ CountOff /\ StressOff /\ PortsOff

NextPing ==
    \/ (\E i \in PingReceivers : PEvent(i))
    \/ PJoinWait \/ PJoinEvent \/ PJoinTimeout \/ PPinger \/ PStart
    \/ (\E i \in PingReceivers : PThreadEvent(i))
    \/ (\E i \in PingReceivers : PThreadFail(i))
    \/ PQueueGet \/ PInterrupt

SpecPing == InitPing /\ [][NextPing]_vars

\* ------------------------------------------------------ the message builders
\* generate_fake_pgp_encrypted_message (test_14) and create_fake_pgp_message
\* (test_13), step by step: the packet header from the body length, the
\* armored text from the packet bytes, the message from the recipients and
\* the armored text.  A byte is a number in 0..255.  Text is a sequence of
\* one-token strings: a character of the base64 alphabet, a word of a header,
\* or the line terminators LF and CR.

\* tag = 18
PgpTag == 18
\* 0xC0 | tag: the bits of a tag below 64 lie outside 0xC0.
TagByte == 192 + PgpTag

\* struct.pack('>I', n): four bytes, the most significant first.
PackBE32(n) ==
    <<(n \div 16777216) % 256, (n \div 65536) % 256, (n \div 256) % 256,
      n % 256>>

\* The header with a slip: 192 itself is still written in one byte.
PacketHeaderLate(L) ==
    IF L <= 192 THEN <<TagByte, L>>
    ELSE IF L < 8384
         THEN <<TagByte, ((L - 192) \div 256) + 192, (L - 192) % 256>>
    ELSE <<TagByte, 255>> \o PackBE32(L)

\* header = bytes([0xC0 | tag, ...]) for body_len = L ((x >> 8) is x \div 256,
\* (x & 0xFF) is x % 256).
PacketHeader(L) ==
    IF L < 192 THEN <<TagByte, L>>
    ELSE IF L < 8384
         THEN <<TagByte, ((L - 192) \div 256) + 192, (L - 192) % 256>>
    ELSE <<TagByte, 255>> \o PackBE32(L)

\* What a reader of new-format packets takes as the body length from the
\* bytes after the tag byte (-1: not a length).
DeclaredLength(h) ==
    IF Len(h) < 2 THEN -1
    ELSE IF h[2] < 192 THEN (IF Len(h) = 2 THEN h[2] ELSE -1)
    ELSE IF h[2] < 224
         THEN (IF Len(h) = 3 THEN (h[2] - 192) * 256 + h[3] + 192 ELSE -1)
    ELSE IF h[2] = 255
         THEN (IF Len(h) = 6
               THEN h[3] * 16777216 + h[4] * 65536 + h[5] * 256 + h[6]
               ELSE -1)
    ELSE -1

\* The base64 alphabet; the padding character is "=".
B64Alphabet ==
    <<"A", "B", "C", "D", "E", "F", "G", "H", "I", "J", "K", "L", "M",
      "N", "O", "P", "Q", "R", "S", "T", "U", "V", "W", "X", "Y", "Z",
      "a", "b", "c", "d", "e", "f", "g", "h", "i", "j", "k", "l", "m",
      "n", "o", "p", "q", "r", "s", "t", "u", "v", "w", "x", "y", "z",
      "0", "1", "2", "3", "4", "5", "6", "7", "8", "9", "+", "/">>
B64Pad == "="
B64Char(v) == B64Alphabet[v + 1]
B64Value(ch) == (CHOOSE i \in 1..64 : B64Alphabet[i] = ch) - 1

\* base64.b64encode: three bytes give four characters; one or two bytes left
\* over give two or three characters and the padding.
RECURSIVE B64Encode(_)
B64Encode(bytes) ==
    IF bytes = <<>> THEN <<>>
    ELSE IF Len(bytes) = 1
         THEN <<B64Char(bytes[1] \div 4), B64Char((bytes[1] % 4) * 16),
                B64Pad, B64Pad>>
    ELSE IF Len(bytes) = 2
         THEN <<B64Char(bytes[1] \div 4),
                B64Char((bytes[1] % 4) * 16 + bytes[2] \div 16),
                B64Char((bytes[2] % 16) * 4), B64Pad>>
    ELSE <<B64Char(bytes[1] \div 4),
           B64Char((bytes[1] % 4) * 16 + bytes[2] \div 16),
           B64Char((bytes[2] % 16) * 4 + bytes[3] \div 64),
           B64Char(bytes[3] % 64)>>
         \o B64Encode(SubSeq(bytes, 4, Len(bytes)))

\* The decoder of base64 text: four characters give three bytes, fewer where
\* the group ends in padding.
RECURSIVE B64Decode(_)
B64Decode(chars) ==
    IF Len(chars) < 4 THEN <<>>
    ELSE LET a == B64Value(chars[1])
             b == B64Value(chars[2])
             rest == B64Decode(SubSeq(chars, 5, Len(chars)))
         IN  IF chars[3] = B64Pad THEN <<a * 4 + b \div 16>>
             ELSE LET c == B64Value(chars[3])
                  IN  IF chars[4] = B64Pad
                      THEN <<a * 4 + b \div 16, (b % 16) * 16 + c \div 4>>
                      ELSE <<a * 4 + b \div 16, (b % 16) * 16 + c \div 4,
                             (c % 4) * 64 + B64Value(chars[4])>> \o rest

LF == "LF"
CR == "CR"
BeginMarker == "-----BEGIN PGP MESSAGE-----"
EndMarker == "-----END PGP MESSAGE-----"
\* [s[i:i+64] for i in range(0, len(s), 64)]
LineWidth == 64

\* The lines with a slip: the text is cut every 65 characters.
RECURSIVE ChunksWide(_)
ChunksWide(chars) ==
    IF chars = <<>> THEN <<>>
    ELSE IF Len(chars) <= LineWidth + 1 THEN <<chars>>
    ELSE <<SubSeq(chars, 1, LineWidth + 1)>>
         \o ChunksWide(SubSeq(chars, LineWidth + 2, Len(chars)))

\* pgp_lines: the base64 text cut every 64 characters.
RECURSIVE Chunks(_)
Chunks(chars) ==
    IF chars = <<>> THEN <<>>
    ELSE IF Len(chars) <= LineWidth THEN <<chars>>
    ELSE <<SubSeq(chars, 1, LineWidth)>>
         \o Chunks(SubSeq(chars, LineWidth + 1, Len(chars)))

\* sep.join(lines)
RECURSIVE Join(_, _)
Join(lines, sep) ==
    IF lines = <<>> THEN <<>>
    ELSE IF Len(lines) = 1 THEN lines[1]
    ELSE lines[1] \o sep \o Join(Tail(lines), sep)

\* pgp_armored = "-----BEGIN PGP MESSAGE-----\n\n" + "\n".join(pgp_lines)
\*               + "\n-----END PGP MESSAGE-----"
Armor(bytes) ==
    <<BeginMarker, LF, LF>> \o Join(Chunks(B64Encode(bytes)), <<LF>>)
        \o <<LF, EndMarker>>

\* text.split(sep): the pieces between the separators, in order.
SepsAt(text, sep) == {i \in 1..Len(text) : text[i] = sep}
SepAt(text, sep, k) ==
    IF k = 0 THEN 0
    ELSE IF k > Cardinality(SepsAt(text, sep)) THEN Len(text) + 1
    ELSE CHOOSE i \in SepsAt(text, sep) :
             Cardinality({j \in SepsAt(text, sep) : j < i}) = k - 1
SplitAt(text, sep) ==
    [k \in 1..Cardinality(SepsAt(text, sep)) + 1 |->
        SubSeq(text, SepAt(text, sep, k - 1) + 1, SepAt(text, sep, k) - 1)]

\* The lines of an armored text between its markers, the blank line after
\* the opening marker left out.
RECURSIVE NonEmpty(_)
NonEmpty(lines) ==
    IF lines = <<>> THEN <<>>
    ELSE (IF Head(lines) = <<>> THEN <<>> ELSE <<Head(lines)>>)
         \o NonEmpty(Tail(lines))
ArmorLines(text) ==
    LET lines == SplitAt(text, LF)
    IN  NonEmpty(SubSeq(lines, 2, Len(lines) - 1))

\* Un-armoring: the markers are stripped, the lines joined and the base64
\* text decoded.
Unarmor(text) == B64Decode(Join(ArmorLines(text), <<>>))

\* The line end of the message text: the f-string of test_14 has plain
\* newlines, that of test_13 has "\r" before each newline.
EOL(kind) == IF kind = "create13" THEN <<CR, LF>> ELSE <<LF>>

Boundary == "boundary"
Delimiter == <<"--", Boundary>>
Closing == <<"--", Boundary, "--">>

\* to_header = ", ".join(recipients)
ToHeader(to) == Join([i \in 1..Len(to) |-> <<to[i]>>], <<",", " ">>)

\* The headers with a slip: the first recipient only.
HeadersFirstOnly(kind, to) ==
    LET e == EOL(kind)
    IN  <<"From:", "sender">> \o e
        \o <<"To:">> \o (IF to = <<>> THEN <<>> ELSE <<to[1]>>) \o e
        \o <<"Subject:", "subject">> \o e
        \o (IF kind = "create13"
            THEN <<"Message-ID:", "id">> \o e \o <<"Date:", "date">> \o e
            ELSE <<>>)
        \o <<"MIME-Version:", "1.0">> \o e
        \o <<"Content-Type:", "multipart/encrypted", Boundary>> \o e

\* The header lines of the message.
Headers(kind, to) ==
    LET e == EOL(kind)
    IN  <<"From:", "sender">> \o e
        \o <<"To:">> \o ToHeader(to) \o e
        \o <<"Subject:", "subject">> \o e
        \o (IF kind = "create13"
            THEN <<"Message-ID:", "id">> \o e \o <<"Date:", "date">> \o e
            ELSE <<>>)
        \o <<"MIME-Version:", "1.0">> \o e
        \o <<"Content-Type:", "multipart/encrypted", Boundary>> \o e

\* The body of the message: the version-identification part, the part that
\* holds the armored text, and the closing boundary.
Body(kind, armor) ==
    LET e == EOL(kind)
        more == kind = "create13"
    IN  Delimiter \o e
        \o <<"Content-Type:", "application/pgp-encrypted">> \o e
        \o (IF more THEN <<"Content-Description:", "version">> \o e ELSE <<>>)
        \o e
        \o <<"Version:", "1">> \o e
        \o e
        \o Delimiter \o e
        \o <<"Content-Type:", "application/octet-stream">> \o e
        \o (IF more
            THEN <<"Content-Description:", "message">> \o e
                 \o <<"Content-Disposition:", "inline">> \o e
            ELSE <<>>)
        \o e
        \o armor \o e
        \o (IF more THEN e ELSE <<>>)
        \o Closing \o e

\* msg = f"""From: ... --{boundary}--\n"""
Message(kind, to, armor) == Headers(kind, to) \o EOL(kind) \o Body(kind, armor)

\* ---- what a reader of the message sees
\* The lines of a text: cut at LF, a CR at the end of a line dropped.
StripCR(line) ==
    IF line # <<>> /\ line[Len(line)] = CR
    THEN SubSeq(line, 1, Len(line) - 1) ELSE line
TextLines(text) ==
    LET raw == SplitAt(text, LF)
    IN  [i \in 1..Len(raw) |-> StripCR(raw[i])]
\* The positions of the lines equal to l.
LinesAt(lines, l) == {i \in 1..Len(lines) : lines[i] = l}
\* The header lines: those before the first blank line.
FirstBlank(lines) ==
    IF LinesAt(lines, <<>>) = {} THEN Len(lines) + 1
    ELSE CHOOSE i \in LinesAt(lines, <<>>) :
             \A j \in LinesAt(lines, <<>>) : i <= j
HeaderLines(lines) == SubSeq(lines, 1, FirstBlank(lines) - 1)

\* ---- the builder's inputs
\* Body lengths within LenSpan of each boundary of the length encoding, and
\* three large ones.
LenSpan == 3
PacketLengths ==
    (0..LenSpan) \cup ((192 - LenSpan)..(192 + LenSpan))
        \cup ((8384 - LenSpan)..(8384 + LenSpan))
        \cup {70000, 16777215, 16777216}
\* The body test_14 builds: seipd_version and 20 zero bytes.
Body14 == <<1>> \o [i \in 1..20 |-> 0]
\* The body test_13 builds.
Body13 == <<1, 140, 13, 4, 3, 3, 2>> \o [i \in 1..10 |-> 0]
\* seipd_packet of test_13: the tag byte, one length byte, the body.
Packet13 == <<TagByte, Len(Body13)>> \o Body13
ActualPacket(kind) ==
    IF kind = "create13" THEN Packet13
    ELSE PacketHeader(Len(Body14)) \o Body14

\* Byte sequences to armor: every sequence of up to MaxBytes bytes out of
\* 0 and 255, and all-zero and mixed sequences whose length is a full line of
\* base64 (48 bytes), one byte less or one byte more, up to MaxLines lines.
MaxBytes == 2
MaxLines == 2
RECURSIVE ShortSeqs(_)
ShortSeqs(n) ==
    IF n = 0 THEN {<<>>}
    ELSE LET s == ShortSeqs(n - 1)
         IN  s \cup {Append(x, b) : x \in s, b \in {0, 255}}
RunLengths == {48 * k + d : k \in 1..MaxLines, d \in {-1, 0, 1}}
Zeros(n) == [i \in 1..n |-> 0]
Mixed(n) == [i \in 1..n |-> (i * 37 + 11) % 256]
ByteSeqs ==
    ShortSeqs(MaxBytes) \cup {Zeros(n) : n \in RunLengths}
        \cup {Mixed(n) : n \in RunLengths}

\* The recipient lists: the first n addresses, n up to MaxRcpt, in their
\* order and in the reverse order; the empty list is one of them.
MaxRcpt == 4
AddressList == <<"r1", "r2", "r3", "r4", "r5", "r6">>
FirstRcpts(n) == [i \in 1..n |-> AddressList[i]]
Reverse(seq) == [i \in 1..Len(seq) |-> seq[Len(seq) + 1 - i]]
RcptLists ==
    {FirstRcpts(n) : n \in 0..MaxRcpt}
        \cup {Reverse(FirstRcpts(n)) : n \in 0..MaxRcpt}

\* ---- the steps
\* The packet header is built from the body length.  test_13 writes the
\* length of its body as one byte.
BHeader ==
    /\ b_pc = "header"
    /\ b_header' = IF b_kind = "create13" THEN <<TagByte, b_len>>
                   ELSE PacketHeader(b_len)
    /\ b_pc' = "armor"
    /\ UNCHANGED <<b_kind, b_len, b_data, b_armor, b_to, b_msg>>
    /\ UNCHANGED offBuild

\* The packet bytes are encoded and armored.
BArmor ==
    /\ b_pc = "armor"
    /\ b_armor' = Armor(b_data)
    /\ b_pc' = "message"
    /\ UNCHANGED <<b_kind, b_len, b_header, b_data, b_to, b_msg>>
    /\ UNCHANGED offBuild

\* The message text is put together and returned.
BMessage ==
    /\ b_pc = "message"
    /\ b_msg' = Message(b_kind, b_to, b_armor)
    /\ b_pc' = "done"
    /\ UNCHANGED <<b_kind, b_len, b_header, b_data, b_armor, b_to>>
    /\ UNCHANGED offBuild

\* A call of a builder: test_14's with any body length, test_13's with the
\* body it has; the bytes to armor are the packet itself or any sequence.
BuildInit ==
    /\ b_kind \in {"gen14", "create13"}
    /\ b_pc = "header"
    /\ b_len \in (IF b_kind = "create13" THEN {Len(Body13)} ELSE PacketLengths)
    /\ b_header = <<>>
    /\ b_data \in ByteSeqs \cup {ActualPacket(b_kind)}
    /\ b_armor = <<>>
    /\ b_to \in RcptLists
    /\ b_msg = <<>>

InitBuild == ConnOff /\ HelperOff /\ ScenOff /\ ReaderOff /\ SmtpOff
        /\ VerifyOff /\ PingOff /\ WaitOff /\ MainOff /\ DataOff /\ CountOff /\ StressOff /\ PortsOff /\ BuildInit

NextBuild == BHeader \/ BArmor \/ BMessage

SpecBuild == InitBuild /\ [][NextBuild]_vars

\* ------------------------------------------------- the waits for a delivery
\* Three loops wait for messages that were sent: the collecting loop of
\* test_15_deltachat_cmping ("collect"), Pinger.receive of test_15_cmping
\* ("receive") and _wait_for_message of test_07_federation ("poll"). Time is
\* counted in ticks and passes only while the waiting thread is blocked; a
\* blocking call that has a timeout returns when its timeout is reached.
\* Ticks of the deadline (30 s in collect, the send thread's sending and 60 s
\* in receive, max_wait in poll).
DeadlineTicks == 3
\* Ticks of time.sleep(2) in _wait_for_message.
PollSleep == 2
\* Ticks of event_queue.get(timeout=1.0).
GetTimeout == 1
NumWaitReceivers == 2
\* Deliveries waited for.
WaitExpected == 2
\* Events the event source produces at most.
MaxWaitEvents == 2
WaitReceivers == 1..NumWaitReceivers
WaitKinds == {"collect", "receive", "poll"}
\* The clock of the model stops here; a wait still under way at this time has
\* outlived its deadline by more than a poll interval.
WaitClockMax == DeadlineTicks + PollSleep + 1

\* The timeout of the blocking call of each loop: wait_for_event() has none.
NoTimeout == WaitClockMax + 1
CallTimeout(kind) ==
    CASE kind = "collect" -> NoTimeout
      [] kind = "receive" -> GetTimeout
      [] kind = "poll" -> PollSleep

\* The loop test of each wait: whether the body is entered once more.
LoopGoesOn(kind, pending, now) ==
    CASE kind = "collect" -> pending > 0 /\ now < DeadlineTicks
      [] kind = "receive" -> pending > 0
      [] kind = "poll" -> now < DeadlineTicks

\* The event source produces an event for receiver i: it waits in the
\* receiver's stream (collect), is put into event_queue by the receiver's
\* listener thread (receive), or is the message in the chat list (poll).
WProduce(i) ==
    /\ w_pc \in {"test", "blocked"}
    /\ w_left > 0
    /\ w_left' = w_left - 1
    /\ IF w_kind = "collect"
       THEN w_ev' = [w_ev EXCEPT ![i] = @ + 1] /\ w_q' = w_q
       ELSE w_q' = w_q + 1 /\ w_ev' = w_ev
    /\ UNCHANGED <<w_kind, w_pc, w_now, w_slice, w_idx, w_pending, w_sender>>
    /\ UNCHANGED offWait

\* A tick passes while the thread is blocked in a call whose timeout has not
\* been reached; the send thread's SIGINT is not overtaken either.
WTick ==
    /\ w_pc = "blocked"
    /\ w_now < WaitClockMax
    /\ w_slice < CallTimeout(w_kind)
    /\ ~(w_kind = "receive" /\ w_sender = "alive" /\ w_now >= DeadlineTicks)
    /\ w_now' = w_now + 1
    /\ w_slice' = w_slice + 1
    /\ UNCHANGED <<w_kind, w_pc, w_idx, w_pending, w_left, w_ev, w_q,
                   w_sender>>
    /\ UNCHANGED offWait

\* The loop test. collect and receive enter their blocking call when it
\* holds and return when it does not; _wait_for_message looks through the
\* chat list, returns True on the expected message, sleeps otherwise, and
\* raises when max_wait is over.
WTest ==
    /\ w_pc = "test"
    /\ w_slice' = 0
    /\ IF LoopGoesOn(w_kind, w_pending, w_now)
       THEN IF w_kind = "poll" /\ w_q > 0
            THEN w_pc' = "returned" /\ w_pending' = 0
            ELSE w_pc' = "blocked" /\ w_pending' = w_pending
       ELSE /\ w_pc' = IF w_kind = "poll" THEN "raised" ELSE "returned"
            /\ w_pending' = w_pending
    /\ w_idx' = IF w_kind = "collect" THEN 1 ELSE w_idx
    /\ UNCHANGED <<w_kind, w_now, w_left, w_ev, w_q, w_sender>>
    /\ UNCHANGED offWait

\* collect: the thread goes on to the next receiver of the for loop, and to
\* the loop test after the last one.
NextReceiver(idx) == IF idx < NumWaitReceivers THEN "blocked" ELSE "test"

\* collect: receiver.wait_for_event() returns an event of the receiver at
\* hand; a ping of this run is counted.
WCollectEvent ==
    /\ w_kind = "collect"
    /\ w_pc = "blocked"
    /\ w_ev[w_idx] > 0
    /\ w_ev' = [w_ev EXCEPT ![w_idx] = @ - 1]
    /\ \E ping \in BOOLEAN :
         w_pending' = IF ping /\ w_pending > 0 THEN w_pending - 1
                      ELSE w_pending
    /\ w_pc' = NextReceiver(w_idx)
    /\ w_idx' = IF w_idx < NumWaitReceivers THEN w_idx + 1 ELSE w_idx
    /\ w_slice' = 0
    /\ UNCHANGED <<w_kind, w_now, w_left, w_q, w_sender>>
    /\ UNCHANGED offWait

\* receive: event_queue.get returns an entry; a ping not seen before counts
\* num_pending down.
WQueueGet ==
    /\ w_kind = "receive"
    /\ w_pc = "blocked"
    /\ w_q > 0
    /\ w_q' = w_q - 1
    /\ \E ping \in BOOLEAN :
         w_pending' = IF ping THEN w_pending - 1 ELSE w_pending
    /\ w_pc' = "test"
    /\ w_slice' = 0
    /\ UNCHANGED <<w_kind, w_now, w_idx, w_left, w_ev, w_sender>>
    /\ UNCHANGED offWait

\* receive: event_queue.get raises queue.Empty after its timeout (continue);
\* poll: time.sleep(2) is over.
WCallTimesOut ==
    /\ w_pc = "blocked"
    /\ w_slice = CallTimeout(w_kind)
    /\ w_kind = "receive" => w_q = 0
    /\ w_pc' = "test"
    /\ w_slice' = 0
    /\ UNCHANGED <<w_kind, w_now, w_idx, w_pending, w_left, w_ev, w_q,
                   w_sender>>
    /\ UNCHANGED offWait

\* receive: the send thread ends with an exception of send_text; nothing is
\* left that would interrupt the main thread.
WSenderDies ==
    /\ w_kind = "receive"
    /\ w_sender = "alive"
    /\ w_now < DeadlineTicks
    /\ w_pc \in {"test", "blocked"}
    /\ w_sender' = "dead"
    /\ UNCHANGED <<w_kind, w_pc, w_now, w_slice, w_idx, w_pending, w_left,
                   w_ev, w_q>>
    /\ UNCHANGED offWait

\* receive: the send thread has sent its pings and slept; its SIGINT raises
\* KeyboardInterrupt in the main thread, which leaves the loop.
WSigint ==
    /\ w_kind = "receive"
    /\ w_sender = "alive"
    /\ w_now >= DeadlineTicks
    /\ w_pc \in {"test", "blocked"}
    /\ w_sender' = "fired"
    /\ w_pc' = "interrupted"
    /\ UNCHANGED <<w_kind, w_now, w_slice, w_idx, w_pending, w_left, w_ev,
                   w_q>>
    /\ UNCHANGED offWait

WaitInit ==
    /\ w_kind \in WaitKinds
    /\ w_pc = "test"
    /\ w_now = 0
    /\ w_slice = 0
    /\ w_idx = 1
    /\ w_pending = IF w_kind = "poll" THEN 1 ELSE WaitExpected
    /\ w_left \in 0..MaxWaitEvents
    /\ w_ev = [i \in WaitReceivers |-> 0]
    /\ w_q = 0
    /\ w_sender = IF w_kind = "receive" THEN "alive" ELSE "none"

InitWait == ConnOff /\ HelperOff /\ ScenOff /\ ReaderOff /\ SmtpOff
        /\ VerifyOff /\ PingOff /\ BuildOff /\ MainOff /\ DataOff /\ CountOff /\ StressOff /\ PortsOff /\ WaitInit

NextWait ==
    \/ (\E i \in WaitReceivers : WProduce(i))
    \/ WTick \/ WTest \/ WCollectEvent \/ WQueueGet \/ WCallTimesOut
    \/ WSenderDies \/ WSigint

SpecWait == InitWait /\ [][NextWait]_vars

\* ------------------------------------------------------- the entry points
\* main of test_14 and of test_15 start the server, run the scenario and call
\* sys.exit inside try / except Exception / finally: stop(). test_13 keeps
\* the try in run_multirecipient_test, which returns (success, logs) after
\* its finally clause, and the __main__ block exits on success.
EntryKinds == {"test14", "test13", "test15"}
NoOutcome == [how |-> "none", all_notified |-> FALSE, all_received |-> FALSE,
             successful |-> 0, pinger |-> FALSE, sent |-> 0, received |-> 0]

\* What a scenario can end with: test_idle_notification returns on the two
\* flags, run_multirecipient_test counts the successful recipients, and
\* perform_cmping returns None or the Pinger with its counts; each may raise.
Results(kind) ==
    {[NoOutcome EXCEPT !.how = "raised"]} \cup
    CASE kind = "test14" ->
           {[NoOutcome EXCEPT !.how = "returned", !.all_notified = n,
                             !.all_received = r] : n, r \in BOOLEAN}
      [] kind = "test13" ->
           {[NoOutcome EXCEPT !.how = h, !.successful = k] :
               h \in {"returned"}, k \in 0..NumRecipients}
           \cup {[NoOutcome EXCEPT !.how = "early"]}
      [] kind = "test15" ->
           {[NoOutcome EXCEPT !.how = "returned"]} \cup
           UNION {{[NoOutcome EXCEPT !.how = "returned", !.pinger = TRUE,
                                    !.sent = s, !.received = r] :
                      r \in 0..(s * NumPingReceivers)} : s \in 0..PingCount}

\* Pinger.loss == 0.
LossIsZero(sent, received) ==
    LET expected_total == sent * NumPingReceivers
    IN  expected_total # 0 /\ received = expected_total

\* The value main tests: the return value of test_idle_notification, the
\* variable success of test_13, "pinger and pinger.loss == 0" of test_15.
Succeeded(kind, res) ==
    /\ res.how = "returned"
    /\ CASE kind = "test14" -> res.all_received
         [] kind = "test13" -> res.successful = 4
         [] kind = "test15" -> res.pinger /\ LossIsZero(res.sent, res.received)

ExitCode(success) == IF success THEN 0 ELSE 1

\* The binary is looked for: test_14 and test_15 exit with 1 when it is not
\* there, run of test_13 returns (False, ...) and the __main__ block exits.
EArgs ==
    /\ e_pc = "args"
    /\ \E found \in BOOLEAN :
         IF found
         THEN e_pc' = "start" /\ e_code' = e_code
         ELSE e_pc' = "exited" /\ e_code' = 1
    /\ UNCHANGED <<e_kind, e_srv, e_res, e_success, e_exit>>
    /\ UNCHANGED offMain

\* The server is started: it runs; or the start raises, with or without a
\* process; or (test_13) the process is found to have exited already and
\* the function returns (False, logs).
EStart ==
    /\ e_pc = "start"
    /\ \E how \in {"runs", "raises", "raises late", "gone"} :
         /\ how = "gone" => e_kind = "test13"
         /\ e_srv' = CASE how = "runs" -> "running"
                       [] how = "raises" -> "none"
                       [] how = "raises late" -> "running"
                       [] how = "gone" -> "exited"
         /\ e_pc' = CASE how = "runs" -> "scenario"
                      [] how = "gone" -> "finally"
                      [] OTHER -> "except"
    /\ UNCHANGED <<e_kind, e_res, e_success, e_exit, e_code>>
    /\ UNCHANGED offMain

\* The scenario runs to its end. In test_13 the end of the try block sets
\* success, and a return from inside the block leaves it False.
EScenario ==
    /\ e_pc = "scenario"
    /\ \E res \in Results(e_kind) :
         /\ e_res' = res
         /\ e_pc' = CASE res.how = "raised" -> "except"
                      [] e_kind = "test13" -> "finally"
                      [] OTHER -> "decide"
         /\ e_success' = IF e_kind = "test13" THEN Succeeded(e_kind, res)
                         ELSE e_success
    /\ UNCHANGED <<e_kind, e_srv, e_exit, e_code>>
    /\ UNCHANGED offMain

\* main of test_14 and test_15: sys.exit(0) or sys.exit(1) inside the try.
EDecide ==
    /\ e_pc = "decide"
    /\ e_success' = Succeeded(e_kind, e_res)
    /\ e_exit' = ExitCode(Succeeded(e_kind, e_res))
    /\ e_pc' = "finally"
    /\ UNCHANGED <<e_kind, e_srv, e_res, e_code>>
    /\ UNCHANGED offMain

\* except Exception: test_14 and test_15 call sys.exit(1), test_13 sets
\* success = False.
EExcept ==
    /\ e_pc = "except"
    /\ e_success' = FALSE
    /\ e_exit' = IF e_kind = "test13" THEN e_exit ELSE 1
    /\ e_pc' = "finally"
    /\ UNCHANGED <<e_kind, e_srv, e_res, e_code>>
    /\ UNCHANGED offMain

\* What stop() leaves of the server: without a process nothing is done; the
\* process is sent SIGTERM and waited for 5 s, and killed if it is still
\* there.
StopSkipsKill(process, obeys) ==
    CASE process = "none" -> "none"
      [] obeys -> "terminated"
      [] OTHER -> process
Stopped(process, obeys) ==
    CASE process = "none" -> "none"
      [] obeys -> "terminated"
      [] OTHER -> "killed"

\* finally: the server is stopped. The SystemExit under way then ends the
\* process (test_14, test_15); run_multirecipient_test returns to the
\* __main__ block (test_13).
EFinally ==
    /\ e_pc = "finally"
    /\ \E obeys \in BOOLEAN :
         /\ (e_srv = "exited" => obeys)
         /\ e_srv' = Stopped(e_srv, obeys)
    /\ IF e_kind = "test13"
       THEN e_pc' = "main" /\ e_code' = e_code
       ELSE e_pc' = "exited" /\ e_code' = e_exit
    /\ UNCHANGED <<e_kind, e_res, e_success, e_exit>>
    /\ UNCHANGED offMain

\* The __main__ block of test_13: sys.exit(0) if success, else sys.exit(1).
EMain13 ==
    /\ e_pc = "main"
    /\ e_exit' = ExitCode(e_success)
    /\ e_code' = ExitCode(e_success)
    /\ e_pc' = "exited"
    /\ UNCHANGED <<e_kind, e_srv, e_res, e_success>>
    /\ UNCHANGED offMain

MainInit ==
    /\ e_kind \in EntryKinds
    /\ e_pc = "args"
    /\ e_srv = "none"
    /\ e_res = NoOutcome
    /\ e_success = FALSE
    /\ e_exit = -1
    /\ e_code = -1

InitMain == ConnOff /\ HelperOff /\ ScenOff /\ ReaderOff /\ SmtpOff
        /\ VerifyOff /\ PingOff /\ BuildOff /\ WaitOff /\ DataOff /\ CountOff /\ StressOff /\ PortsOff /\ MainInit

NextMain ==
    \/ EArgs \/ EStart \/ EScenario \/ EDecide \/ EExcept \/ EFinally
    \/ EMain13

SpecMain == InitMain /\ [][NextMain]_vars

\* --------------------------------------------------------- the message data
\* After the 354 reply SMTPClient.data of test_14 writes the message, a CRLF
\* if the message does not end with one, and ".\r\n"; test_13 writes the
\* message and then "\r\n.\r\n".  The text is a sequence of characters, of
\* which CR, LF and "." matter.
MaxText == 6
TextChars == {"x", ".", CR, LF}
RECURSIVE Texts(_)
Texts(n) ==
    IF n = 0 THEN {<<>>}
    ELSE LET s == Texts(n - 1)
         IN  s \cup {Append(t, ch) : t \in s, ch \in TextChars}

\* message.endswith(b"\r\n")
EndsWithCRLF(text) ==
    Len(text) >= 2 /\ text[Len(text) - 1] = CR /\ text[Len(text)] = LF

\* sendall(message) / smtp_socket.send(fake_msg.encode()): the message is
\* written as it is, a leading "." of a line is not doubled.
DMessage ==
    /\ d_pc = "message"
    /\ d_sent' = d_sent \o d_msg
    /\ d_pc' = IF d_kind = "client14" /\ ~EndsWithCRLF(d_msg) THEN "crlf"
               ELSE "dot"
    /\ UNCHANGED <<d_kind, d_msg>>
    /\ UNCHANGED offData

\* test_14: if not message.endswith(b"\r\n"): sendall(b"\r\n")
DCrlf ==
    /\ d_pc = "crlf"
    /\ d_sent' = d_sent \o <<CR, LF>>
    /\ d_pc' = "dot"
    /\ UNCHANGED <<d_kind, d_msg>>
    /\ UNCHANGED offData

\* test_14: sendall(b".\r\n"); test_13: send(b"\r\n.\r\n")
DDot ==
    /\ d_pc = "dot"
    /\ d_sent' = d_sent \o (IF d_kind = "cmd13" THEN <<CR, LF>> ELSE <<>>)
                        \o <<".", CR, LF>>
    /\ d_pc' = "done"
    /\ UNCHANGED <<d_kind, d_msg>>
    /\ UNCHANGED offData

DataInit ==
    /\ d_kind \in {"client14", "cmd13"}
    /\ d_pc = "message"
    /\ d_msg \in Texts(MaxText)
    /\ d_sent = <<>>

InitData == ConnOff /\ HelperOff /\ ScenOff /\ ReaderOff /\ SmtpOff
        /\ VerifyOff /\ PingOff /\ BuildOff /\ WaitOff /\ MainOff /\ CountOff /\ StressOff /\ PortsOff /\ DataInit

NextData == DMessage \/ DCrlf \/ DDot

SpecData == InitData /\ [][NextData]_vars

\* ------------------------------------------------ test_15: the Pinger counts
\* The send thread sends count pings, each followed by self.sent += 1, then
\* sleeps 60 s and sends SIGINT. The listener threads put the events of
\* their receivers into event_queue, a ping of the run as often as the event
\* source reports it; the receive loop takes them and counts a pair
\* (seq, receiver) the first time it sees it.
CountPings == 2
MaxDeliveries == 5
PingSeqs == 0..(CountPings - 1)
CountReceivers == 1..NumPingReceivers
AllPairs == PingSeqs \X CountReceivers

\* Pinger.loss, in percent (the quotient rounded down).
Loss(sent, received) ==
    LET expected_total == sent * NumPingReceivers
    IN  IF expected_total = 0 THEN 100
        ELSE ((expected_total - received) * 100) \div expected_total

\* send_pings: group.send_text(text) for the next seq.
KSendText ==
    /\ k_snd = "send"
    /\ k_out' = k_out \cup {k_seq}
    /\ k_snd' = "count"
    /\ UNCHANGED <<k_seq, k_sent, k_q, k_made, k_main, k_received, k_pending,
                   k_seen>>
    /\ UNCHANGED offCount

\* send_pings: self.sent += 1, time.sleep(interval), and the next turn of the
\* for loop; after the last one the thread sleeps 60 s.
KCount ==
    /\ k_snd = "count"
    /\ k_sent' = k_sent + 1
    /\ k_seq' = k_seq + 1
    /\ k_snd' = IF k_seq + 1 < CountPings THEN "send" ELSE "sleep"
    /\ UNCHANGED <<k_out, k_q, k_made, k_main, k_received, k_pending, k_seen>>
    /\ UNCHANGED offCount

\* receiver_thread of receiver i: wait_for_event returned an event, a ping
\* that has been sent (again, perhaps) or another event; it is put into the
\* queue. The queue is first in, first out and only the loop reads it, so
\* the loop sees the events in the order of the puts; a put is taken at the
\* latest moment it can have, when the loop has emptied the queue.
KPut(i, s) ==
    /\ k_main = "loop"
    /\ k_made < MaxDeliveries
    /\ k_q = <<>>
    /\ s \in k_out \cup {-1}
    /\ k_made' = k_made + 1
    /\ k_q' = Append(k_q, <<i, s>>)
    /\ UNCHANGED <<k_snd, k_seq, k_out, k_sent, k_main, k_received, k_pending,
                   k_seen>>
    /\ UNCHANGED offCount

\* Whether the loop counts the event: a ping whose receiver is not yet in
\* received_by_receiver[seq].
CountsAll(ev, seen) == ev[2] # -1
Counts(ev, seen) == ev[2] # -1 /\ <<ev[2], ev[1]>> \notin seen

\* Pinger.receive: event_queue.get returned an entry; a ping seen for the
\* first time is counted, and the loop ends when num_pending reaches 0.
KGet ==
    /\ k_main = "loop"
    /\ k_q # <<>>
    /\ k_q' = Tail(k_q)
    /\ LET ev == Head(k_q)
       IN  IF Counts(ev, k_seen)
           THEN /\ k_received' = k_received + 1
                /\ k_pending' = k_pending - 1
                /\ k_seen' = k_seen \cup {<<ev[2], ev[1]>>}
                /\ k_main' = IF k_pending - 1 > 0 THEN "loop" ELSE "done"
           ELSE UNCHANGED <<k_received, k_pending, k_seen, k_main>>
    /\ UNCHANGED <<k_snd, k_seq, k_out, k_sent, k_made>>
    /\ UNCHANGED offCount

\* send_pings: the 60 s are over; SIGINT raises KeyboardInterrupt in the
\* main thread, which leaves the loop.
KSigint ==
    /\ k_snd = "sleep"
    /\ k_snd' = "fired"
    /\ k_main' = IF k_main = "loop" THEN "interrupted" ELSE k_main
    /\ UNCHANGED <<k_seq, k_out, k_sent, k_q, k_made, k_received, k_pending,
                   k_seen>>
    /\ UNCHANGED offCount

\* Pinger.__init__ has started the send thread and receive() is entered.
CountInit ==
    /\ k_snd = "send"
    /\ k_seq = 0
    /\ k_out = {}
    /\ k_sent = 0
    /\ k_q = <<>>
    /\ k_made = 0
    /\ k_main = "loop"
    /\ k_received = 0
    /\ k_pending = CountPings * NumPingReceivers
    /\ k_seen = {}

InitCount == ConnOff /\ HelperOff /\ ScenOff /\ ReaderOff /\ SmtpOff
        /\ VerifyOff /\ PingOff /\ BuildOff /\ WaitOff /\ MainOff /\ DataOff /\ StressOff /\ PortsOff
        /\ CountInit

NextCount ==
    \/ KSendText \/ KCount
    \/ (\E i \in CountReceivers, s \in PingSeqs \cup {-1} : KPut(i, s))
    \/ KGet \/ KSigint

SpecCount == InitCount /\ [][NextCount]_vars

\* ------------------------------------------------------ stress.py: run_stress
\* run_stress shares the users among the workers, starts one process per
\* worker, takes one result per process from the queue, joins the processes
\* and builds the report. A worker prepares its directory, its log file and
\* its Rpc object, and runs the accounts, the secure joins and the sending
\* inside try / except Exception / finally, where the finally clause puts the
\* result on the queue.
MaxUsers == 3
MaxWorkers == 2
WorkerIds == 1..x_workers

\* per_worker: users // workers each, one more for the first users % workers.
PerWorker(users, workers) ==
    [i \in 1..workers |->
        (users \div workers) + (IF i <= users % workers THEN 1 ELSE 0)]

RECURSIVE SumSeq(_)
SumSeq(s) == IF s = <<>> THEN 0 ELSE Head(s) + SumSeq(Tail(s))

\* run_stress: per_worker is computed.
XAssign ==
    /\ x_main = "assign"
    /\ x_per' = PerWorker(x_users, x_workers)
    /\ x_main' = "start"
    /\ UNCHANGED <<x_users, x_workers, x_wk, x_res, x_put, x_queue, x_results,
                   x_report>>
    /\ UNCHANGED offStress

\* run_stress: the next process is started; after the last one the results
\* are collected.
XStart ==
    /\ x_main = "start"
    /\ \E w \in WorkerIds :
        /\ x_wk[w] = "none"
        /\ \A u \in WorkerIds : u < w => x_wk[u] # "none"
        /\ x_wk' = [x_wk EXCEPT ![w] = "setup"]
        /\ x_main' = IF w = x_workers THEN "collect" ELSE "start"
    /\ UNCHANGED <<x_users, x_workers, x_per, x_res, x_put, x_queue,
                   x_results, x_report>>
    /\ UNCHANGED offStress

\* _worker_run, lines 13-37: the data directory, accounts.toml, the log file
\* and the Rpc object, before the try statement. An OSError raised here ends
\* the process.
XSetup(w, ok) ==
    /\ x_wk[w] = "setup"
    /\ x_wk' = [x_wk EXCEPT ![w] = IF ok THEN "run" ELSE "ended"]
    /\ x_res' = [x_res EXCEPT ![w] = IF ok THEN "ok" ELSE "none"]
    /\ UNCHANGED <<x_users, x_workers, x_per, x_main, x_put, x_queue,
                   x_results, x_report>>
    /\ UNCHANGED offStress

\* _worker_run, lines 39-81: the body of the try statement finishes, or it
\* raises and the except clause records the error in the result.
XRun(w, ok) ==
    /\ x_wk[w] = "run"
    /\ x_wk' = [x_wk EXCEPT ![w] = "finally"]
    /\ x_res' = [x_res EXCEPT ![w] = IF ok THEN "ok" ELSE "errors"]
    /\ UNCHANGED <<x_users, x_workers, x_per, x_main, x_put, x_queue,
                   x_results, x_report>>
    /\ UNCHANGED offStress

\* _worker_run, lines 82-85: the finally clause puts the result on the queue
\* and the process ends.
XFinally(w) ==
    /\ x_wk[w] = "finally"
    /\ x_queue' = Append(x_queue, <<w, x_res[w]>>)
    /\ x_put' = [x_put EXCEPT ![w] = @ + 1]
    /\ x_wk' = [x_wk EXCEPT ![w] = "ended"]
    /\ UNCHANGED <<x_users, x_workers, x_per, x_main, x_res, x_results,
                   x_report>>
    /\ UNCHANGED offStress

\* run_stress: queue.get(), once per process; it blocks while the queue is
\* empty.
XCollect ==
    /\ x_main = "collect"
    /\ x_queue # <<>>
    /\ x_results' = Append(x_results, Head(x_queue))
    /\ x_queue' = Tail(x_queue)
    /\ x_main' = IF Len(x_results) + 1 = x_workers THEN "join" ELSE "collect"
    /\ UNCHANGED <<x_users, x_workers, x_per, x_wk, x_res, x_put, x_report>>
    /\ UNCHANGED offStress

\* run_stress: proc.join() for every process.
XJoin ==
    /\ x_main = "join"
    /\ \A w \in WorkerIds : x_wk[w] = "ended"
    /\ x_main' = "report"
    /\ UNCHANGED <<x_users, x_workers, x_per, x_wk, x_res, x_put, x_queue,
                   x_results, x_report>>
    /\ UNCHANGED offStress

\* run_stress: the report is built from results and written.
XReport ==
    /\ x_main = "report"
    /\ x_report' = x_results
    /\ x_main' = "done"
    /\ UNCHANGED <<x_users, x_workers, x_per, x_wk, x_res, x_put, x_queue,
                   x_results>>
    /\ UNCHANGED offStress

\* run_stress is called with users >= 0 and workers >= 1.
StressInit ==
    /\ x_users \in 0..MaxUsers
    /\ x_workers \in 1..MaxWorkers
    /\ x_per = <<>>
    /\ x_main = "assign"
    /\ x_wk = [w \in 1..x_workers |-> "none"]
    /\ x_res = [w \in 1..x_workers |-> "none"]
    /\ x_put = [w \in 1..x_workers |-> 0]
    /\ x_queue = <<>>
    /\ x_results = <<>>
    /\ x_report = <<>>

InitStress == ConnOff /\ HelperOff /\ ScenOff /\ ReaderOff /\ SmtpOff
        /\ VerifyOff /\ PingOff /\ BuildOff /\ WaitOff /\ MainOff /\ DataOff /\ PortsOff
        /\ CountOff /\ StressInit

NextStress ==
    \/ XAssign \/ XStart
    \/ (\E w \in WorkerIds, ok \in BOOLEAN : XSetup(w, ok))
    \/ (\E w \in WorkerIds, ok \in BOOLEAN : XRun(w, ok))
    \/ (\E w \in WorkerIds : XFinally(w))
    \/ XCollect \/ XJoin \/ XReport

SpecStress == InitStress /\ [][NextStress]_vars

\* ------------------------------------------- test_07: the port analysis
\* For each of three scenarios run flushes the rules of both servers, blocks
\* two ports on both, and tries one delivery; after the loop it flushes once
\* more. Every iptables command goes through _ssh, which raises
\* subprocess.TimeoutExpired when ssh does not come back in time and returns
\* the result, which no caller looks at, otherwise.
Remotes == <<"remote1", "remote2">>
Chains == <<"INPUT", "OUTPUT">>
Blocks == <<<<25, 80>>, <<25, 443>>, <<80, 443>>>>
SshOutcomes == {"ok", "refused", "raise"}

\* _block_ports: the commands in the order they are issued.
BlockCmds(ports) ==
    [n \in 1..(Len(Remotes) * Len(ports) * Len(Chains)) |->
        LET k == n - 1
        IN  <<Remotes[(k \div (Len(ports) * Len(Chains))) + 1],
              Chains[(k % Len(Chains)) + 1],
              ports[((k \div Len(Chains)) % Len(ports)) + 1]>>]

\* _flush_iptables with the outcome out[r] of the _ssh call for remote r:
\* the remotes whose rules are gone, and whether the loop got through.
Reached(out) ==
    {r \in 1..Len(Remotes) : \A q \in 1..r : out[q] # "raise"}
Flushed(out) == {Remotes[r] : r \in {q \in Reached(out) : out[q] = "ok"}}
FlushRaises(out) == \E r \in 1..Len(Remotes) : out[r] = "raise"
AfterFlush(rules, out) == {x \in rules : x[1] \notin Flushed(out)}
FlushRefused(out) == \E r \in Reached(out) : out[r] = "refused"

\* run, step 1: _flush_iptables(remotes) at the start of a scenario.
FFlush(out) ==
    /\ f_pc = "flush"
    /\ f_rules' = AfterFlush(f_rules, out)
    /\ f_lost' = (f_lost \/ FlushRefused(out))
    /\ f_pc' = IF FlushRaises(out) THEN "raised" ELSE "block"
    /\ UNCHANGED <<f_i, f_results>>
    /\ UNCHANGED offPorts

\* run, step 2: _block_ports(remotes, ports_to_block); the first n commands
\* came back, and the next one, if there is one, raised.
FBlock(n) ==
    /\ f_pc = "block"
    /\ LET cmds == BlockCmds(Blocks[f_i])
       IN  /\ n \in 0..Len(cmds)
           /\ f_rules' = f_rules \cup {cmds[k] : k \in 1..n}
           /\ f_pc' = IF n < Len(cmds) THEN "raised" ELSE "deliver"
    /\ UNCHANGED <<f_i, f_results, f_lost>>
    /\ UNCHANGED offPorts

\* run, step 3: _try_deliver returns whether the message arrived, or one of
\* its calls (create_chat, send_text, get_chatlist) raises; after the third
\* scenario the loop is over.
FDeliver(outcome) ==
    /\ f_pc = "deliver"
    /\ IF outcome = "raise"
       THEN /\ f_pc' = "raised"
            /\ UNCHANGED <<f_i, f_results>>
       ELSE /\ f_results' = Append(f_results, outcome = "delivered")
            /\ f_i' = IF f_i < Len(Blocks) THEN f_i + 1 ELSE f_i
            /\ f_pc' = IF f_i < Len(Blocks) THEN "flush" ELSE "restore"
    /\ UNCHANGED <<f_rules, f_lost>>
    /\ UNCHANGED offPorts

\* run, step 4: _flush_iptables(remotes) after the loop, and the summary.
FRestore(out) ==
    /\ f_pc = "restore"
    /\ f_rules' = AfterFlush(f_rules, out)
    /\ f_lost' = (f_lost \/ FlushRefused(out))
    /\ f_pc' = IF FlushRaises(out) THEN "raised" ELSE "returned"
    /\ UNCHANGED <<f_i, f_results>>
    /\ UNCHANGED offPorts

\* Part C begins: iptables is installed and no rule of the test is in place.
PortsInit ==
    /\ f_pc = "flush"
    /\ f_i = 1
    /\ f_rules = {}
    /\ f_results = <<>>
    /\ f_lost = FALSE

InitPorts == ConnOff /\ HelperOff /\ ScenOff /\ ReaderOff /\ SmtpOff
        /\ VerifyOff /\ PingOff /\ BuildOff /\ WaitOff /\ MainOff /\ DataOff
        /\ CountOff /\ StressOff /\ PortsInit

NextPorts ==
    \/ (\E out \in [1..Len(Remotes) -> SshOutcomes] : FFlush(out))
    \/ (\E n \in 0..(Len(Remotes) * 2 * Len(Chains)) : FBlock(n))
    \/ (\E outcome \in {"delivered", "not", "raise"} : FDeliver(outcome))
    \/ (\E out \in [1..Len(Remotes) -> SshOutcomes] : FRestore(out))

SpecPorts == InitPorts /\ [][NextPorts]_vars

\* ------------------------------------------------------------------ claims
ClientStates == {"Disconnected", "Connected", "Authenticated", "Selected",
                 "Idling"}
CmdOf(op) == CASE op = "login" -> "LOGIN"
               [] op = "select" -> "SELECT"
               [] op = "fetch" -> "FETCH"
               [] op = "idle_start" -> "IDLE"
               [] op = "idle_done" -> "DONE"
               [] op = "logout" -> "LOGOUT"
               [] OTHER -> "none"
Terminators(toks) == Cardinality({i \in 1..Len(toks) : toks[i] = CRLF})
StartsWithPlus(line) == line # <<>> /\ Head(line) # <<>> /\ Head(Head(line)) = "+"

\* C2: after idle_start has succeeded and until idle_done is called, every
\* other call on the connection is rejected by the client and writes nothing:
\* the only line written while the client is Idling is DONE.
C2_NoWriteWhileIdling ==
    [][(cstate = "Idling" /\ wire' # wire) => wire' = Append(wire, DONE)]_vars

C9_TagsIncrease ==
    \A i, j \in 1..Len(wire) :
        (i < j /\ wire[i] # DONE /\ wire[j] # DONE) =>
            /\ TagNumber(wire[i]) < TagNumber(wire[j])
            /\ wire[i] # wire[j]
            /\ Len(wire[i]) = 5 /\ Len(wire[j]) = 5
            /\ wire[i][1] = "A" /\ wire[j][1] = "A"
\* A second IDLE, written after a first IDLE session was ended with DONE, is
\* pending with its own tag.
C9_Witness ==
    /\ Len(wire) >= 4
    /\ \E i \in 1..Len(wire) : wire[i] = DONE
    /\ idle_tag = wire[Len(wire)]
    /\ cstate = "Idling"

C1_ResponseOfOwnTag ==
    (h_kind = "cmd13" /\ h_ret.n > 0) =>
        /\ Len(h_reply) > h_ret.n
        /\ h_ret.resp = h_reply[h_ret.n + 1]

\* C8: a command is written only after the tagged final line of the command
\* before it has been completely read: the server has answered that command
\* and nothing it sent is still unread.
C8_OneInFlight ==
    [][(h_tag' = h_tag + 1 /\ h_tag >= 1) =>
           (Len(h_reply) = h_tag + 1 /\ h_net = <<>>)]_vars

\* The notification loop has run over every idling connection.
CollectDone ==
    \/ t_pc \in {"verify", "cleanup", "result"}
    \/ t_pc = "returned" /\ t_msgs # <<>>

\* C4: on every path of the scenario, what follows IDLE on a connection is
\* idle_done: no other command is written on it and it is not closed before.
C4_IdleDoneFirst ==
    \A i \in DOMAIN t_ev : \A k \in 1..Len(t_ev[i]) - 1 :
        t_ev[i][k] = "IDLE" => t_ev[i][k + 1] = "DONE"

\* C5: the notification loop leaves exactly one event per idling connection
\* in notifications_received, whatever idle_wait and idle_done gave or raised:
\* one for each connection already handled while the loop runs, N after it.
C5_OneEventPerConnection ==
    /\ t_pc \in {"collect", "wait"} => Len(t_notifs) = t_i - 1
    /\ t_pc = "idle_done" => Len(t_notifs) = t_i
    /\ CollectDone => Len(t_notifs) = t_idle_clients

\* C6: with a server that is not at fault (it pushes EXISTS to each idling
\* connection once it has accepted the message, in any order, and answers
\* DONE with OK), each of the 4 IDLE sessions has seen EXISTS within 10
\* seconds of the submission and was then ended by an idle_done that gave OK.
C6_AllNotifiedInTime ==
    (t_fault = 0 /\ CollectDone) =>
        /\ t_idle_clients = NumRecipients
        /\ t_notifs = [i \in Recipients |-> TRUE]
        /\ \A i \in Recipients :
            /\ t_seen[i] \in 0..WaitTimeout
            /\ t_done[i] = "OK"
            /\ SubSeq(t_ev[i], 3, 4) = <<"IDLE", "DONE">>

\* The scenario has passed without a fault although the pushes reached the
\* connections in the reverse of the order they are waited on, the first
\* session having waited for its notification.
C6_Witness ==
    /\ t_fault = 0
    /\ t_ret = "true"
    /\ t_pushed = <<4, 3, 2, 1>>
    /\ t_seen[1] > 0
    /\ \A i \in Recipients : t_done[i] = "OK"

\* C7: the scenario returns True only when every recipient woke from IDLE
\* with an EXISTS notification and every recipient holds the message.
C7_SuccessMeansAll ==
    t_ret = "true" =>
        \A i \in Recipients : t_seen[i] >= 0 /\ t_has[i]

\* C12: idle_done that reads a status other than OK on the line tagged with the
\* IDLE tag fails with an error; with OK it completes and reports success.
C12_IdleDoneFails ==
    result.op = "idle_done" /\ result.line # <<>> =>
        /\ IsTagged(result.line, result.tag)
        /\ result.status # OK => result.outcome = "raise"
        /\ result.status = OK => result.outcome = "true"

\* The lines joined again, each followed by its terminator.
RECURSIVE Unsplit(_)
Unsplit(lines) ==
    IF lines = <<>> THEN <<>>
    ELSE Head(lines) \o <<CRLF>> \o Unsplit(Tail(lines))

\* C11: idle_wait(timeout) never blocks past its deadline, however the peer's
\* tokens are split across reads, and the list it returns holds the lines read
\* during the call with no line after the first line that holds EXISTS.
C11_IdleWaitBounded ==
    /\ r_pc \in {"loop", "slice"} =>
          /\ r_now <= r_deadline
          /\ \A i \in 1..Len(r_notifs) : ~HasExists(r_notifs[i])
    /\ r_ret.kind = "list" =>
          \A i \in 1..(Len(r_ret.val) - 1) : ~HasExists(r_ret.val[i])

\* C15: the lines the successive reads have returned, joined with their
\* terminators and followed by what self.buffer holds, are exactly the tokens
\* taken from the connection: the stream split at CRLF, no byte lost,
\* duplicated or reordered, whatever the split into reads and the timeouts.
C15_LinesAreTheStream ==
    /\ r_taken <= r_arrived
    /\ Unsplit(r_lines) \o r_buf = SubSeq(r_stream, 1, r_taken)
    /\ \A i \in 1..Len(r_lines) : ~HasCRLF(r_lines[i])

\* C15, amended: the same with every returned line decoded as UTF-8, a byte
\* that cannot be decoded replaced by U+FFFD.
C15_LinesDecodeTheStream ==
    /\ r_taken <= r_arrived
    /\ Unsplit(r_lines) \o Decode(r_buf) = Decode(SubSeq(r_stream, 1, r_taken))
    /\ \A i \in 1..Len(r_lines) : ~HasCRLF(r_lines[i])

\* A slice timed out part-way through a line, the line was returned whole by
\* a later read, and tokens read past its terminator wait in the buffer.
C15_Witness ==
    /\ r_cut
    /\ Len(r_lines) >= 1
    /\ Len(r_lines[Len(r_lines)]) >= 2
    /\ r_buf # <<>>
    /\ r_pc = "idle"

\* C14: when the peer has closed and a read of the SMTP reply reader comes
\* back empty before the last line of the reply, the read ends with an error:
\* it does not go on reading and it does not return a reply.
C14_ClosedEndsRead ==
    m_kind = "client14" /\ m_empty > 0 =>
        m_pc # "recv" /\ m_ret.kind = "raise"

\* C16: a reply read takes from the connection exactly the tokens of the
\* reply, up to and including the terminator of its last line: it returns as
\* soon as it has them, and when it returns it has them all and nothing else.
C16_ReplyConsumed ==
    /\ m_pc = "recv" /\ m_raw # <<>> => m_raw # m_sent
    /\ m_pc \in {"send", "done", "failed"} /\ m_ret.kind = "reply" /\ m_empty = 0 =>
          m_ret.raw = m_sent /\ m_net = <<>>

\* What the client writes in a session that goes through.
ExpectedWire ==
    <<Wrote("EHLO", 0), Wrote("AUTH", 0), Wrote("MAIL", 0)>>
    \o [i \in Recipients |-> Wrote("RCPT", i)]
    \o <<Wrote("DATA", 0), Wrote("BODY", 0), Wrote(".", 0), Wrote("QUIT", 0)>>
IsPrefix(a, b) == Len(a) <= Len(b) /\ a = SubSeq(b, 1, Len(a))
\* How many entries have been written once step n has been written.
RECURSIVE WrittenThrough(_)
WrittenThrough(n) ==
    IF n = 0 THEN 0 ELSE WrittenThrough(n - 1) + Len(Written(SmtpSteps[n]))

\* C17: the commands are written in the order connect, EHLO, AUTH, MAIL, RCPT
\* (each recipient), DATA, QUIT, and once the server has answered a step,
\* EHLO included, with a code other than the expected one, nothing further
\* is written on the connection.
C17_OrderAndStop ==
    /\ IsPrefix(m_wire, ExpectedWire)
    /\ \A n \in 1..Len(m_codes) :
          m_codes[n] # SmtpSteps[n].expect /\ n < Len(SmtpSteps) =>
              Len(m_wire) <= WrittenThrough(n)

\* C18: the submission is one transaction on one connection: one MAIL FROM,
\* then one RCPT TO for each of the 4 recipients, then one DATA and the
\* message once, in that order; a session that ends well has written all of it.
C18_OneTransaction ==
    /\ m_kind # "off" => IsPrefix(m_wire, ExpectedWire)
    /\ \A i \in Recipients :
          Cardinality({k \in 1..Len(m_wire) : m_wire[k] = Wrote("RCPT", i)}) <= 1
    /\ \A cmd \in {"MAIL", "DATA", "BODY", "."} :
          Cardinality({k \in 1..Len(m_wire) : m_wire[k] = Wrote(cmd, 0)}) <= 1
    /\ m_pc = "done" =>
          IsPrefix(SubSeq(ExpectedWire, 1, Len(ExpectedWire) - 1), m_wire)

\* A session of test_13 that went through: every reply had the expected code.
C18_Witness ==
    /\ m_kind = "cmd13"
    /\ m_pc = "done"
    /\ m_wire = ExpectedWire
    /\ \A n \in 1..Len(SmtpSteps) : m_codes[n] = SmtpSteps[n].expect

DataStep == 4 + NumRecipients + 1
HasWritten(what) == \E k \in 1..Len(m_wire) : m_wire[k] = Wrote(what, 0)

\* C20: data() writes DATA; the message and the "." line are written only
\* when the reply to DATA is 354, the "." line right after the message; it
\* returns True exactly when the reply read after the "." line is 250, and
\* False without writing the message when the reply to DATA is not 354.
C20_Data ==
    m_kind = "client14" =>
        /\ HasWritten("BODY") => /\ HasWritten("DATA")
                             /\ Len(m_codes) >= DataStep
                             /\ m_codes[DataStep] = W("354")
        /\ \A k \in 1..Len(m_wire) :
              /\ m_wire[k] = Wrote("BODY", 0) =>
                    k < Len(m_wire) /\ m_wire[k + 1] = Wrote(".", 0)
              /\ m_wire[k] = Wrote(".", 0) =>
                    k > 1 /\ m_wire[k - 1] = Wrote("BODY", 0)
        /\ m_dataret = "true" =>
              /\ HasWritten(".")
              /\ Len(m_codes) > DataStep
              /\ m_codes[DataStep + 1] = W("250")
        /\ m_dataret = "false" =>
              \/ m_codes[DataStep] # W("354") /\ ~HasWritten("BODY")
              \/ /\ HasWritten(".")
                 /\ Len(m_codes) > DataStep
                 /\ m_codes[DataStep + 1] # W("250")
        /\ m_ret.n = DataStep /\ m_ret.kind = "reply" /\ m_pc # "recv" =>
              m_dataret = (IF m_codes[DataStep] = W("354") THEN "none" ELSE "false")
        /\ m_ret.n = DataStep + 1 /\ m_ret.kind = "reply" /\ m_pc # "recv" =>
              m_dataret = (IF m_codes[DataStep + 1] = W("250") THEN "true" ELSE "false")

\* DATA was answered with a refusal: data() returned False and DATA is the
\* last thing written.
C20_Witness ==
    /\ m_kind = "client14"
    /\ Len(m_codes) = DataStep
    /\ m_codes[DataStep] = Refused
    /\ m_dataret = "false"
    /\ m_pc = "failed"
    /\ m_wire[Len(m_wire)] = Wrote("DATA", 0)

\* C13: at every instant each receiver's event stream is read by at most one
\* execution unit: the main thread is never blocked in wait_for_event on a
\* stream whose listener thread is blocked in it too, the hand-over from the
\* join loop to the listeners included.
Readers(i) ==
    (IF p_main = "wait" /\ p_idx = i THEN {"main"} ELSE {})
    \cup (IF p_thr[i] = "wait" THEN {"listener"} ELSE {})
C13_OneReader ==
    p_main # "off" => \A i \in PingReceivers : Cardinality(Readers(i)) <= 1

\* The hand-over has happened: a stream the main thread read from in its join
\* loop has since been read by its listener, and every listener is waiting.
C13_Witness ==
    /\ p_main = "queue"
    /\ \A i \in PingReceivers : p_thr[i] = "wait"
    /\ \E i \in PingReceivers : p_reads[i] = {"main", "listener"}

\* C19: the scenario passes only if every one of the 4 recipients reported
\* exactly 1 message in its INBOX.
C19_ExactlyOneEach ==
    v_ret = "true" => \A i \in 1..Len(v_counts) : v_counts[i] = 1

\* C21: each operation of the SMTP client (connect, ehlo, auth_plain,
\* mail_from, rcpt_to, data) that reads a reply whose code is not the one its
\* step expects ends by raising an error; none of them returns to its caller.
C21_UnexpectedCodeRejects ==
    (/\ m_kind = "client14"
     /\ m_out.n >= 1
     /\ m_out.how # "none"
     /\ m_out.n <= Len(m_codes)
     /\ SmtpSteps[m_out.n].cmd # "QUIT"
     /\ m_codes[m_out.n] # SmtpSteps[m_out.n].expect
     /\ m_ret.kind = "reply")
    => m_out.how = "raise"
\* C22: the login of a session counts as a success only when the line tagged
\* with the LOGIN command's own tag has the status OK: once the server has
\* answered LOGIN with NO, the session that has looked at the LOGIN response
\* has ended as failed, whatever other text holds "OK".  Stated for the
\* helpers' sessions, whose first command is LOGIN.
C22_LoginByOwnStatus ==
    (/\ h_kind # "off"
     /\ h_ret.n >= 1
     /\ Len(h_reply) >= 2
     /\ h_reply[2] = TaggedLine(HelperTag(1), NO))
    => h_pc = "failed"
C24_QuitCloses ==
    (m_kind = "client14" /\ m_pc = "done") =>
        /\ m_sock = "none"
        /\ m_out = Ended(Len(SmtpSteps), "return", "none")

\* quit has returned after a refusal, after a timeout or after a failed write.
C24_QuitWitness ==
    /\ m_kind = "client14"
    /\ m_pc = "done"
    /\ \/ m_codes[Len(m_codes)] = Refused
       \/ Len(m_codes) < Len(SmtpSteps)
\* C25: for every body length L the packet header is the byte 0xD2 followed
\* by one length byte when L < 192, by two when 192 <= L < 8384, and by 0xFF
\* and the four bytes of L, most significant first, otherwise; every byte lies
\* in 0..255 and a reader of the header recovers exactly L.
C25_HeaderDeclaresLength ==
    (b_kind = "gen14" /\ b_header # <<>>) =>
        /\ b_header[1] = 210
        /\ Len(b_header) = (IF b_len < 192 THEN 2
                            ELSE IF b_len < 8384 THEN 3 ELSE 6)
        /\ b_len >= 8384 =>
             /\ b_header[2] = 255
             /\ SubSeq(b_header, 3, 6) = PackBE32(b_len)
        /\ \A i \in 1..Len(b_header) : b_header[i] \in 0..255
        /\ DeclaredLength(b_header) = b_len

\* The header has been built for the largest length of the two-byte form.
C25_Witness ==
    /\ b_kind = "gen14"
    /\ b_len = 8383
    /\ b_header = <<210, 223, 255>>
\* C30: the armored text is the opening marker, a blank line, the base64
\* text in lines of which every one but the last has exactly 64 characters
\* and the last at most 64, and the closing marker; un-armoring it gives back
\* the bytes that were armored, for every byte sequence, the empty one and
\* the all-zero ones included.
C30_ArmorRoundTrip ==
    b_armor # <<>> =>
        LET lines == SplitAt(b_armor, LF)
            body == SubSeq(lines, 3, Len(lines) - 1)
        IN  /\ Len(lines) >= 4
            /\ lines[1] = <<BeginMarker>>
            /\ lines[2] = <<>>
            /\ lines[Len(lines)] = <<EndMarker>>
            /\ \A k \in 1..Len(body) - 1 : Len(body[k]) = 64
            /\ Len(body[Len(body)]) <= 64
            /\ Unarmor(b_armor) = b_data

\* A byte sequence of two full lines and one byte more has been armored.
C30_Witness ==
    /\ b_data = Mixed(97)
    /\ b_armor # <<>>
    /\ Len(SplitAt(b_armor, LF)) = 6
\* C29: a message built for N recipients has exactly one To header, which
\* lists the N addresses in the given order separated by ", ", and its body
\* holds two parts between the boundary lines: first the part with
\* "Version: 1", then the part with the armored text, then the closing
\* boundary and nothing after it.
C29_MessageShape ==
    b_msg # <<>> =>
        LET lines == TextLines(b_msg)
            hdr == HeaderLines(lines)
            tos == {i \in 1..Len(hdr) : hdr[i][1] = "To:"}
            to == Tail(hdr[CHOOSE i \in tos : TRUE])
            n == Len(b_to)
            ds == LinesAt(lines, Delimiter)
            cs == LinesAt(lines, Closing)
            d1 == CHOOSE i \in ds : \A j \in ds : i <= j
            d2 == CHOOSE i \in ds : \A j \in ds : j <= i
            c == CHOOSE i \in cs : TRUE
            Within(l, from, upto) ==
                \E i \in LinesAt(lines, l) : from < i /\ i < upto
        IN  /\ Cardinality(tos) = 1
            /\ Len(to) = (IF n = 0 THEN 0 ELSE 3 * n - 2)
            /\ \A k \in 1..n : to[3 * k - 2] = b_to[k]
            /\ \A k \in 1..n - 1 : to[3 * k - 1] = "," /\ to[3 * k] = " "
            /\ Cardinality(ds) = 2
            /\ Cardinality(cs) = 1
            /\ FirstBlank(lines) < d1 /\ d1 < d2 /\ d2 < c
            /\ Within(<<"Version:", "1">>, d1, d2)
            /\ ~Within(<<BeginMarker>>, d1, d2)
            /\ Within(<<BeginMarker>>, d2, c)
            /\ Within(<<EndMarker>>, d2, c)
            /\ ~Within(<<"Version:", "1">>, d2, c)
            /\ \A i \in c + 1..Len(lines) : lines[i] = <<>>

\* Both builders have built a message for four recipients.
C29_Witness ==
    /\ b_msg # <<>>
    /\ Len(b_to) = 4
    /\ b_to[1] = "r4"
    /\ b_data = ActualPacket(b_kind)

\* C27: every wait for a delivery ends within its deadline: while the loop is
\* still under way (at its test or blocked in its call) no more time has
\* passed than the deadline and one poll interval, whatever the event source
\* does, and also when it produces no event at all.
WaitUnderWay == w_pc \in {"test", "blocked"}
C27_WaitEndsByDeadline ==
    WaitUnderWay => w_now <= DeadlineTicks + PollSleep

\* The collecting loop is past its deadline, blocked in wait_for_event of its
\* first receiver, and the event source has produced nothing at all.
C27_CollectHangs ==
    /\ w_kind = "collect"
    /\ w_pc = "blocked"
    /\ w_idx = 1
    /\ w_left = MaxWaitEvents
    /\ w_pending = WaitExpected
    /\ w_now > DeadlineTicks + PollSleep

\* Pinger.receive is past the time of the SIGINT and still polls its queue,
\* the send thread having ended early.
C27_ReceiveHangs ==
    /\ w_kind = "receive"
    /\ w_sender = "dead"
    /\ WaitUnderWay
    /\ w_now > DeadlineTicks + PollSleep

\* _wait_for_message, and Pinger.receive while its send thread lives, do end
\* in time.
C27_BoundedOnes ==
    (w_kind = "poll" \/ (w_kind = "receive" /\ w_sender = "alive"))
        => (WaitUnderWay => w_now <= DeadlineTicks + PollSleep)

\* C26: an entry point that has exited has exit code 0 exactly when its
\* scenario ended with full success (all recipients received in test_14, all
\* 4 recipients successful in test_13, a Pinger without loss in test_15) and
\* exit code 1 otherwise, a raised exception and a failed start included;
\* and on each of these paths no server process is left running.
FullSuccess ==
    /\ e_res.how = "returned"
    /\ e_kind = "test14" => e_res.all_received
    /\ e_kind = "test13" => e_res.successful = NumRecipients
    /\ e_kind = "test15" =>
         /\ e_res.pinger
         /\ e_res.sent > 0
         /\ e_res.received = e_res.sent * NumPingReceivers
C26_WitnessRaised ==
    /\ e_pc = "exited"
    /\ e_kind = "test13"
    /\ e_code = 1
    /\ e_res.how = "raised"
    /\ e_srv = "terminated"

\* C28: in the verification of test_13 every recipient checked so far is in
\* exactly one of successful_recipients and failed_recipients, once, whatever
\* step of its check failed; the results are reached only after all N were
\* checked; and the scenario succeeds exactly when successful_recipients
\* holds all N.
TimesIn(list, r) == Cardinality({k \in 1..Len(list) : list[k] = r})
FailedNames == [k \in 1..Len(v_failed) |-> v_failed[k][1]]
C28_WitnessAll ==
    /\ v_pc = "done"
    /\ v_succ = <<1, 2, 3, 4>>
    /\ v_failed = <<>>
    /\ v_ret = "true"

\* C31: every line of a built message ends with CRLF (no LF of the text is
\* without a CR before it, and the text ends with CRLF), and the last line is
\* the closing boundary.
BareLFs(text) ==
    {i \in SepsAt(text, LF) : i = 1 \/ text[i - 1] # CR}
LastLine(text) ==
    LET lines == NonEmpty(TextLines(text))
    IN  IF lines = <<>> THEN <<>> ELSE lines[Len(lines)]
C31_LinesEndWithCRLF ==
    b_pc = "done" =>
        /\ BareLFs(b_msg) = {}
        /\ b_msg[Len(b_msg)] = LF
        /\ LastLine(b_msg) = Closing

\* The message of test_13 has CRLF after its own lines and bare LF inside the
\* armored text only: as many bare LF as the armored text has LF.
C31_Test13ArmorOnly ==
    (b_pc = "done" /\ b_kind = "create13") =>
        /\ Cardinality(BareLFs(b_msg)) = Cardinality(SepsAt(b_armor, LF))
        /\ BareLFs(b_msg) # {}

\* The last line is the closing boundary in both builders.
C31_ClosingIsLast ==
    b_pc = "done" => LastLine(b_msg) = Closing /\ b_msg[Len(b_msg)] = LF

\* C32: a builder called with an empty recipient list produces no message.
C32_EmptyRecipientsRejected ==
    b_to = <<>> => b_msg = <<>>

\* A message was built for no recipient: its To header is empty.
C32_EmptyToBuilt ==
    /\ b_to = <<>>
    /\ b_pc = "done"
    /\ <<"To:">> \in {TextLines(b_msg)[i] : i \in 1..Len(TextLines(b_msg))}

\* C33: an idle_done called while the client is Idling, at whatever point of
\* the session, ends on the line tagged with the pending tag and returns by
\* its status, and every line sent before has been read by then: nothing of
\* the IDLE session is left in the buffer or on the connection for the next
\* command to read.
C33_IdleDoneConsumes ==
    [][(/\ pc.op = "idle_done"
        /\ pc'.op = "none"
        /\ cstate = "Idling"
        /\ result'.line # <<>>)
       => /\ IsTagged(result'.line, pc.tag)
          /\ (result'.outcome = "true") <=> (result'.status = OK)
          /\ buffer' \o s2c' = <<>>]_vars

\* idle_done has returned while the tagged line of the server's IDLE is
\* still unread: the pending tag was one the server had answered with BAD.
C33_LineLeftBehind ==
    /\ result.op = "idle_done"
    /\ result.outcome = "false"
    /\ pc.op = "none"
    /\ \E tag \in {FormatTag(n) : n \in 1..MaxCmds} :
         /\ tag # result.tag
         /\ Answer(tag, "DONE", OK) \in answered
         /\ buffer \o s2c = TaggedLine(tag, OK)

\* On a session the server accepted under the pending tag the statement
\* holds: idle_done ends on the answer to DONE and leaves nothing unread.
C33_AcceptedSession ==
    [][(/\ pc.op = "idle_done"
        /\ pc'.op = "none"
        /\ result'.line # <<>>
        /\ Answer(pc.tag, "IDLE", PLUS) \in answered)
       => /\ result'.op = "idle_done"
          /\ result'.tag = pc.tag
          /\ IsTagged(result'.line, pc.tag)
          /\ Answer(pc.tag, "DONE", result'.status) \in answered
          /\ (result'.outcome = "true") <=> (result'.status = OK)
          /\ buffer' \o s2c' = <<>>
          /\ cstate' # "Idling"]_vars

\* idle_done has returned True on a session in which the server pushed a line
\* that no idle_wait had read: idle_done read it before the tagged line.
C33_PendingLinesRead ==
    /\ result.op = "idle_done"
    /\ result.outcome = "true"
    /\ Answer(result.tag, "IDLE", PLUS) \in answered
    /\ pushes >= 1
    /\ \E i \in 1..Len(result.untagged) : HasExists(result.untagged[i])
    /\ buffer \o s2c = <<>>

\* C34: when test_idle_notification has returned, by whatever path, every
\* connection it opened is closed: the clients of the user creation, the
\* recipients' IMAP clients and the SMTP client.
OpenConnections ==
    {i \in Recipients : t_conn[i] = "open"}
C34_AllClosedOnReturn ==
    t_pc = "returned" =>
        /\ OpenConnections = {}
        /\ t_tmp = 0
        /\ t_smtp # "open"

\* The function has returned False after a failed SMTP step: the SMTP client
\* and the four idling IMAP clients are still open.
C34_LeftOpenAfterSmtp ==
    /\ t_pc = "returned"
    /\ t_ret = "false"
    /\ t_smtp = "open"
    /\ OpenConnections = Recipients

\* The function has returned False after a login that returned False while
\* the recipients were put into IDLE: that client and the ones already
\* idling are still open.
C34_LeftOpenAfterLogin ==
    /\ t_pc = "returned"
    /\ t_smtp = "none"
    /\ Cardinality(OpenConnections) >= 2

\* A run that reached the cleanup has closed everything it opened.
C34_ClosedAfterCleanup ==
    (t_pc = "returned" /\ Len(t_msgs) = NumRecipients) =>
        /\ OpenConnections = {}
        /\ t_tmp = 0
        /\ t_smtp # "open"

\* C35: the characters written after the 354 reply hold the end-of-data
\* sequence CRLF "." CRLF exactly once, as their last five characters, for
\* every message: a line of the message that is a single "." does not end
\* the data early.  (The server reads the data from the start of a line, so
\* a "." line at the very start counts too.)
EndOfData == <<CR, LF, ".", CR, LF>>
EndsAt(text) ==
    {i \in 5..Len(text) : SubSeq(text, i - 4, i) = EndOfData}
    \cup (IF Len(text) >= 3 /\ SubSeq(text, 1, 3) = <<".", CR, LF>>
          THEN {3} ELSE {})
C35_EndOfDataOnce ==
    d_pc = "done" => EndsAt(d_sent) = {Len(d_sent)}

\* A message with a line that is a single "." has been written as it is: the
\* data ends inside the message.
C35_EndsEarly ==
    /\ d_pc = "done"
    /\ d_msg = <<"x", CR, LF, ".", CR, LF>>
    /\ \E i \in EndsAt(d_sent) : i < Len(d_sent)

\* The lines of a text that are a single ".".
DotLines(text) ==
    LET lines == SplitAt(text, LF)
    IN  {i \in 1..Len(lines) : lines[i] \in {<<".">>, <<".", CR>>}}
\* For a message without such a line the sequence is written once, at the
\* end.
C35_WithoutDotLine ==
    (d_pc = "done" /\ DotLines(d_msg) = {}) => EndsAt(d_sent) = {Len(d_sent)}

\* C36: in every reachable state of the pinger received <= sent x receivers,
\* and so the loss figure lies between 0 and 100 percent.
C36_ReceivedWithinSent ==
    k_snd # "off" =>
        /\ k_received <= k_sent * NumPingReceivers
        /\ Loss(k_sent, k_received) \in 0..100

\* The second ping has come back from every receiver before the send thread
\* has counted it: the loop has ended with a loss below 0.
C36_NegativeLoss ==
    /\ k_main = "done"
    /\ k_snd = "count"
    /\ k_sent = CountPings - 1
    /\ k_received = CountPings * NumPingReceivers
    /\ Loss(k_sent, k_received) < 0

\* Once the send thread has counted its last ping the figures are in range.
C36_AfterLastCount ==
    k_snd \in {"sleep", "fired"} =>
        /\ k_received <= k_sent * NumPingReceivers
        /\ Loss(k_sent, k_received) \in 0..100

SharesEven ==
    /\ Len(x_per) = x_workers
    /\ SumSeq(x_per) = x_users
    /\ \A i, j \in WorkerIds : x_per[i] - x_per[j] \in {-1, 0, 1}

\* The results hold exactly one entry of every worker.
OnePerWorker(results) ==
    /\ Len(results) = x_workers
    /\ \A w \in WorkerIds :
        Cardinality({i \in 1..Len(results) : results[i][1] = w}) = 1

\* C38: the user counts of the workers sum to users and differ by at most 1;
\* a worker process that has ended, its run finished or raised, has put
\* exactly one result on the queue; the report is built only after exactly
\* one result per worker has been collected.
C38_OneResultPerWorker ==
    x_main \notin {"off", "assign"} =>
        /\ SharesEven
        /\ \A w \in WorkerIds : x_wk[w] = "ended" => x_put[w] = 1
        /\ x_main \in {"report", "done"} => OnePerWorker(x_results)

\* The second of two workers has raised before its try statement and ended
\* without a result; run_stress has taken the only result there is and
\* waits in queue.get().
C38_NoResult ==
    /\ x_workers = 2
    /\ x_wk = <<"ended", "ended">>
    /\ x_put = <<1, 0>>
    /\ x_main = "collect"
    /\ x_queue = <<>>
    /\ Len(x_results) = 1

\* What holds of the claim: the shares, one result from every worker that
\* reached its try statement, and the report after one result per worker.
C38_WithinTry ==
    x_main \notin {"off", "assign"} =>
        /\ SharesEven
        /\ \A w \in WorkerIds : x_put[w] <= 1
        /\ \A w \in WorkerIds :
            (x_wk[w] = "ended" /\ x_res[w] # "none") => x_put[w] = 1
        /\ x_main \in {"report", "done"} => OnePerWorker(x_results)
        /\ x_main = "done" => x_report = x_results

\* A report built from the results of two workers, one of which raised in
\* its try statement, with the odd user given to the first worker.
C38_ReportBuilt ==
    /\ x_main = "done"
    /\ x_users = 3
    /\ x_per = <<2, 1>>
    /\ \E i, j \in 1..2 : x_report[i][2] = "ok" /\ x_report[j][2] = "errors"

\* C39: when the port analysis has ended, by completing the three scenarios
\* or by an exception raised in a blocking or delivery step, no port-blocking
\* rule of the test remains on either server.
C39_NoRuleRemains ==
    f_pc \in {"returned", "raised"} => f_rules = {}

\* The delivery step of the second scenario has raised with every iptables
\* command before it carried out: the four rules of that scenario are in
\* place on both servers.
C39_RulesLeft ==
    /\ f_pc = "raised"
    /\ f_i = 2
    /\ ~f_lost
    /\ f_rules = {<<r, c, p>> : r \in {"remote1", "remote2"},
                                c \in {"INPUT", "OUTPUT"}, p \in {25, 443}}

\* A run that completes the three scenarios with every iptables -F carried
\* out leaves no rule behind.
C39_CompletedClean ==
    (f_pc = "returned" /\ ~f_lost) => f_rules = {}

\* The three scenarios have been completed, with one delivery at least, and
\* the last flush has removed the rules.
C39_Completed ==
    /\ f_pc = "returned"
    /\ ~f_lost
    /\ Len(f_results) = 3
    /\ f_results[3]
    /\ f_rules = {}

====
